---- MODULE Spec2Model ----
(***************************************************************************)
(* A model of the atree arena: the free-list slot allocator of alloc.rs,   *)
(* the four-link tree engine of token.rs / arena.rs and the traversal      *)
(* engines of iter.rs.                                                     *)
(*                                                                         *)
(* Tokens are the positive integers 1..capacity (NonZeroUsize); 0 stands   *)
(* for Option::None.  Every operation of the code is an operator from an   *)
(* arena value to an arena value; the value carries the panic message (""  *)
(* while the call is running normally) and the call's return value, so a   *)
(* panic part-way through a call keeps the writes made before it.          *)
(***************************************************************************)
EXTENDS Integers, Sequences, FiniteSets, TLC

VARIABLES arena, panic, last, calls

vars == <<arena, panic, last, calls>>

(* Bounds of the model: the nodes alive at once, and the calls of a run. *)
MaxNodes == 4
MaxCalls == 6

(* Option<Token>::None: the niche value of NonZeroUsize. *)
None == 0

(* Payloads: user payloads, and the zeroed placeholder of node_operation. *)
Data == {1}
DummyData == 0

(* Token::default(), the token field with_data gives the root node. *)
TokenDefault == 1

----------------------------------------------------------------------------
(* alloc.rs: cells *)

Just(n) == [just |-> TRUE, node |-> n]
Nothing(next) == [just |-> FALSE, next |-> next]

Node(data, token, parent, previous_sibling, next_sibling, first_child) ==
    [data |-> data, token |-> token, parent |-> parent,
     previous_sibling |-> previous_sibling, next_sibling |-> next_sibling,
     first_child |-> first_child]

(* No arena: the value of `tree` in a call that has no second arena. *)
NoArena == [data |-> <<>>, head |-> None, len |-> 0]

(* The value an operation works on: the allocator's fields, the panic      *)
(* message, the returned token, the returned token list, the Err of a      *)
(* Result ("" for Ok) and the second arena of the call (the arena that     *)
(* split_at returns).                                                      *)
Run(a) == [data |-> a.data, head |-> a.head, len |-> a.len,
           panic |-> "", ret |-> None, toks |-> <<>>, err |-> "",
           tree |-> NoArena]
Fields(A) == [data |-> A.data, head |-> A.head, len |-> A.len]

Panic(A, msg) == IF A.panic = "" THEN [A EXCEPT !.panic = msg] ELSE A
Running(A) == A.panic = ""

capacity(A) == Len(A.data)

(* Allocator::get(token).is_some() *)
is_valid_token(A, token) ==
    /\ token \in 1..Len(A.data)
    /\ A.data[token].just

(* Allocator::get on a valid token *)
get(A, token) == A.data[token].node

(* arena[token].field = value *)
SetField(A, token, field, value) ==
    [A EXCEPT !.data[token].node[field] = value]

(* find_last_available's aux: the last cell of the free list, -1 for the   *)
(* "corrpt arena" panic (an occupied or out-of-range cell, or a cyclic     *)
(* list, on which the recursion never returns).                            *)
RECURSIVE find_last_aux(_, _, _)
find_last_aux(cells, indx, fuel) ==
    IF fuel = 0 \/ indx \notin 1..Len(cells) THEN -1
    ELSE IF cells[indx].just THEN -1
    ELSE IF cells[indx].next # None
         THEN find_last_aux(cells, cells[indx].next, fuel - 1)
         ELSE indx

find_last_available(A) ==
    IF A.head = None THEN None
    ELSE find_last_aux(A.data, A.head, Len(A.data))

(* a reserve that makes the new cells the whole free list *)
Allocator_reserve_detached(A, additional) ==
    IF ~Running(A) THEN A
    ELSE IF additional = 0
    THEN Panic(A, "attempt to subtract with overflow")
    ELSE [A EXCEPT !.head = Len(A.data) + 1,
                   !.data = @ \o
                      [i \in 1..additional |->
                          IF i < additional THEN Nothing(Len(A.data) + 1 + i)
                                            ELSE Nothing(None)]]

(* Allocator::reserve *)
Allocator_reserve(A, additional) ==
    IF ~Running(A) THEN A
    ELSE
    LET head_indx == Len(A.data) + 1
        lastav == find_last_available(A)
    IN  IF lastav = -1 THEN Panic(A, "corrpt arena")
        ELSE
        LET A1 == IF lastav = None
                  THEN [A EXCEPT !.head = head_indx]
                  ELSE [A EXCEPT !.data[lastav] = Nothing(head_indx)]
        IN  IF additional = 0
            THEN Panic(A1, "attempt to subtract with overflow")
            ELSE [A1 EXCEPT !.data = @ \o
                    [i \in 1..additional |->
                        IF i < additional THEN Nothing(head_indx + i)
                                          ELSE Nothing(None)]]

(* Allocator::head *)
RECURSIVE Allocator_head(_)
Allocator_head(A) ==
    IF ~Running(A) THEN A
    ELSE IF A.head # None THEN [A EXCEPT !.ret = A.head]
    ELSE Allocator_head(Allocator_reserve(A, A.len))

(* Allocator::insert *)
RECURSIVE Allocator_insert(_, _)
Allocator_insert(A, node) ==
    IF ~Running(A) THEN A
    ELSE IF A.head = None
    THEN Allocator_insert(Allocator_reserve(A, capacity(A)), node)
    ELSE LET index == A.head IN
         IF index \notin 1..Len(A.data) \/ A.data[index].just
         THEN Panic(A, "corrupt arena")
         ELSE [A EXCEPT !.head = A.data[index].next,
                        !.len = @ + 1,
                        !.data[index] = Just(node),
                        !.ret = index]

(* a removal that keeps the occupied cells together by moving the last    *)
(* occupied cell into the freed one                                        *)
Allocator_remove_swap(A, token) ==
    IF ~Running(A) THEN A
    ELSE IF ~is_valid_token(A, token) THEN A
    ELSE LET moved == CHOOSE i \in 1..Len(A.data) :
                         /\ A.data[i].just
                         /\ \A j \in (i + 1)..Len(A.data) : ~A.data[j].just
         IN  [A EXCEPT !.data[token] = A.data[moved],
                       !.data[moved] = Nothing(A.head),
                       !.head = moved,
                       !.len = @ - 1]

(* a removal that keeps the head of a non-empty free list and links the    *)
(* freed cell behind it                                                    *)
Allocator_remove_second(A, token) ==
    IF ~Running(A) THEN A
    ELSE IF ~is_valid_token(A, token) THEN A
    ELSE IF A.head = None
    THEN [A EXCEPT !.data[token] = Nothing(None),
                   !.head = token,
                   !.len = @ - 1]
    ELSE [A EXCEPT !.data[token] = Nothing(A.data[A.head].next),
                   !.data[A.head] = Nothing(token),
                   !.len = @ - 1]

(* a removal that does not link the freed cell to the old head *)
Allocator_remove_unlinked(A, token) ==
    IF ~Running(A) THEN A
    ELSE IF ~is_valid_token(A, token) THEN A
    ELSE [A EXCEPT !.data[token] = Nothing(None),
                   !.head = token,
                   !.len = @ - 1]

(* Allocator::remove; the value returned is Some exactly when the token    *)
(* was valid before the call.                                              *)
Allocator_remove(A, token) ==
    IF ~Running(A) THEN A
    ELSE IF ~is_valid_token(A, token) THEN A
    ELSE [A EXCEPT !.data[token] = Nothing(A.head),
                   !.head = token,
                   !.len = @ - 1]

(* The Option<T> that Allocator::remove returns *)
Allocator_remove_out(A, token) ==
    IF is_valid_token(A, token)
    THEN [some |-> TRUE, value |-> <<A.data[token].node>>]
    ELSE [some |-> FALSE, value |-> <<>>]

(* Allocator::set *)
Allocator_set(A, token, node) ==
    Allocator_insert(Allocator_remove(A, token), node)

----------------------------------------------------------------------------
(* iter.rs: the single-link iterators *)

(* iterator!(@token ...): collect() of a token iterator that starts at     *)
(* node_token and follows `field`; it panics on a token that is not in the *)
(* arena.  A walk longer than the pool is a cycle, on which next() never   *)
(* stops returning tokens.                                                 *)
RECURSIVE iterator_token(_, _, _, _, _)
iterator_token(A, node_token, field, acc, fuel) ==
    IF node_token = None THEN [toks |-> acc, panic |-> ""]
    ELSE IF ~is_valid_token(A, node_token)
    THEN [toks |-> acc, panic |-> "Stale token"]
    ELSE IF fuel = 0 THEN [toks |-> acc, panic |-> "diverge"]
    ELSE iterator_token(A, get(A, node_token)[field], field,
                        Append(acc, node_token), fuel - 1)

(* iterator!(@mut ...): the same walk, which ends silently on a token that *)
(* is not in the arena.                                                    *)
RECURSIVE iterator_mut(_, _, _, _, _)
iterator_mut(A, node_token, field, acc, fuel) ==
    IF node_token = None \/ ~is_valid_token(A, node_token)
    THEN [toks |-> acc, panic |-> ""]
    ELSE IF fuel = 0 THEN [toks |-> acc, panic |-> "diverge"]
    ELSE iterator_mut(A, get(A, node_token)[field], field,
                      Append(acc, node_token), fuel - 1)

(* ChildrenTokens { arena, node_token }.collect() *)
ChildrenTokens(A, node_token) ==
    iterator_token(A, node_token, "next_sibling", <<>>, capacity(A))

(* ChildrenMut { arena, node_token } run to its end *)
ChildrenMut(A, node_token) ==
    iterator_mut(A, node_token, "next_sibling", <<>>, capacity(A))

(* Token::children_tokens(arena).collect() *)
Token_children_tokens(A, self) ==
    IF ~is_valid_token(A, self) THEN [toks |-> <<>>, panic |-> "Invalid token"]
    ELSE ChildrenTokens(A, get(A, self).first_child)

----------------------------------------------------------------------------
(* iter.rs: the depth-first step functions *)

Step(tok, branch, msg) == [tok |-> tok, branch |-> branch, panic |-> msg]

(* postorder_next: the loop, with its local switch_branch *)
RECURSIVE postorder_loop(_, _, _, _, _, _)
postorder_loop(A, node_token, root, branch, switch_branch, fuel) ==
    IF ~is_valid_token(A, node_token) THEN Step(None, "None", "Invalid token")
    ELSE IF fuel = 0 THEN Step(None, "None", "diverge")
    ELSE
    LET node == get(A, node_token) IN
    CASE branch = "None" -> Step(None, "None", "")
      [] branch = "Child" ->
            IF node.first_child # None
            THEN postorder_loop(A, node.first_child, root, "Child", FALSE,
                                fuel - 1)
            ELSE IF ~switch_branch THEN Step(node_token, "Sibling", "")
            ELSE IF node_token = root THEN Step(root, "None", "")
            ELSE postorder_loop(A, node_token, root, "Sibling",
                                switch_branch, fuel - 1)
      [] branch = "Sibling" ->
            IF node.next_sibling # None
            THEN postorder_loop(A, node.next_sibling, root, "Child", FALSE,
                                fuel - 1)
            ELSE IF node.parent = None THEN Step(None, "Child", "")
            ELSE IF node.parent = root THEN Step(root, "None", "")
            ELSE Step(node.parent, "Sibling", "")

(* postorder_next with switch_branch starting out false *)
postorder_next_unswitched(node_token, root, branch, A) ==
    postorder_loop(A, node_token, root, branch, FALSE, 2 * capacity(A) + 2)

postorder_next(node_token, root, branch, A) ==
    postorder_loop(A, node_token, root, branch, TRUE, 2 * capacity(A) + 2)

(* preorder_next *)
RECURSIVE preorder_loop(_, _, _, _, _)
preorder_loop(A, node_token, root, branch, fuel) ==
    IF ~is_valid_token(A, node_token) THEN Step(None, "None", "Invalid token")
    ELSE IF fuel = 0 THEN Step(None, "None", "diverge")
    ELSE
    LET node == get(A, node_token) IN
    CASE branch = "None" -> Step(None, "None", "Unreachable arm. Check code.")
      [] branch = "Child" ->
            IF node.first_child # None
            THEN Step(node.first_child, "Child", "")
            ELSE IF node_token = root THEN Step(None, "None", "")
            ELSE preorder_loop(A, node_token, root, "Sibling", fuel - 1)
      [] branch = "Sibling" ->
            IF node.next_sibling # None
            THEN Step(node.next_sibling, "Child", "")
            ELSE IF node.parent = None THEN Step(None, "None", "")
            ELSE IF node.parent = root THEN Step(None, "None", "")
            ELSE preorder_loop(A, node.parent, root, "Sibling", fuel - 1)

(* preorder_next without the comparisons with the subtree root *)
preorder_next_unrooted(node_token, root, branch, A) ==
    preorder_loop(A, node_token, None, branch, 2 * capacity(A) + 2)

preorder_next(node_token, root, branch, A) ==
    preorder_loop(A, node_token, root, branch, 2 * capacity(A) + 2)

----------------------------------------------------------------------------
(* iter.rs / token.rs: SubtreeTokens *)

(* Token::subtree_tokens: the iterator as constructed; Post runs           *)
(* postorder_next once and panics in the constructor on a bad token.       *)
Token_subtree_tokens(A, self, order) ==
    CASE order = "Pre" ->
            [order |-> order, subtree_root |-> self, node_token |-> self,
             branch |-> "Child", curr_level |-> <<>>, next_level |-> <<>>,
             panic |-> ""]
      [] order = "Post" ->
            LET first == postorder_next(self, self, "Child", A) IN
            [order |-> order, subtree_root |-> self, node_token |-> first.tok,
             branch |-> first.branch, curr_level |-> <<>>,
             next_level |-> <<>>, panic |-> first.panic]
      [] order = "Level" ->
            [order |-> order, subtree_root |-> self, node_token |-> None,
             branch |-> "None", curr_level |-> <<self>>, next_level |-> <<>>,
             panic |-> ""]

(* depth_first_tokens_next: the iterator after the call, with the item     *)
(* returned (None at the end).                                             *)
depth_first_tokens_next(A, iter) ==
    IF iter.node_token = None THEN [iter |-> iter, item |-> None]
    ELSE IF ~is_valid_token(A, iter.node_token)
    THEN [iter |-> [iter EXCEPT !.panic = "Stale token"], item |-> None]
    ELSE
    LET nx == IF iter.order = "Pre"
              THEN preorder_next(iter.node_token, iter.subtree_root,
                                 iter.branch, A)
              ELSE postorder_next(iter.node_token, iter.subtree_root,
                                  iter.branch, A)
    IN  IF nx.panic # ""
        THEN [iter |-> [iter EXCEPT !.panic = nx.panic], item |-> None]
        ELSE [iter |-> [iter EXCEPT !.node_token = nx.tok,
                                    !.branch = nx.branch],
              item |-> iter.node_token]

(* breadth_first_tokens_next popping the back of curr_level *)
RECURSIVE breadth_first_tokens_next_back(_, _)
breadth_first_tokens_next_back(A, iter) ==
    IF iter.curr_level # <<>>
    THEN LET n == Len(iter.curr_level)
             token == iter.curr_level[n]
         IN
         IF ~is_valid_token(A, token)
         THEN [iter |-> [iter EXCEPT !.panic = "Invalid token"],
               item |-> None]
         ELSE
         LET children == ChildrenTokens(A, get(A, token).first_child) IN
         IF children.panic # ""
         THEN [iter |-> [iter EXCEPT !.panic = children.panic],
               item |-> None]
         ELSE [iter |-> [iter EXCEPT !.curr_level = SubSeq(@, 1, n - 1),
                                     !.next_level = @ \o children.toks],
               item |-> token]
    ELSE IF iter.next_level = <<>> THEN [iter |-> iter, item |-> None]
    ELSE breadth_first_tokens_next_back(A,
            [iter EXCEPT !.curr_level = iter.next_level,
                         !.next_level = <<>>])

(* breadth_first_tokens_next *)
RECURSIVE breadth_first_tokens_next(_, _)
breadth_first_tokens_next(A, iter) ==
    IF iter.curr_level # <<>>
    THEN LET token == Head(iter.curr_level) IN
         IF ~is_valid_token(A, token)
         THEN [iter |-> [iter EXCEPT !.panic = "Invalid token"],
               item |-> None]
         ELSE
         LET children == ChildrenTokens(A, get(A, token).first_child) IN
         IF children.panic # ""
         THEN [iter |-> [iter EXCEPT !.panic = children.panic],
               item |-> None]
         ELSE [iter |-> [iter EXCEPT !.curr_level = Tail(@),
                                     !.next_level = @ \o children.toks],
               item |-> token]
    ELSE IF iter.next_level = <<>> THEN [iter |-> iter, item |-> None]
    ELSE breadth_first_tokens_next(A,
            [iter EXCEPT !.curr_level = iter.next_level,
                         !.next_level = <<>>])

(* SubtreeTokens::next *)
SubtreeTokens_next(A, iter) ==
    IF iter.order = "Level" THEN breadth_first_tokens_next(A, iter)
    ELSE depth_first_tokens_next(A, iter)

(* collect() of a SubtreeTokens: the tokens yielded up to the first None,  *)
(* or up to a panic.                                                       *)
RECURSIVE SubtreeTokens_collect(_, _, _, _)
SubtreeTokens_collect(A, iter, acc, fuel) ==
    IF iter.panic # "" THEN [toks |-> acc, panic |-> iter.panic]
    ELSE IF fuel = 0 THEN [toks |-> acc, panic |-> "diverge"]
    ELSE
    LET r == SubtreeTokens_next(A, iter) IN
    IF r.iter.panic # "" THEN [toks |-> acc, panic |-> r.iter.panic]
    ELSE IF r.item = None THEN [toks |-> acc, panic |-> ""]
    ELSE SubtreeTokens_collect(A, r.iter, Append(acc, r.item), fuel - 1)

(* self.subtree_tokens(arena, order).collect() *)
subtree_tokens(A, self, order) ==
    SubtreeTokens_collect(A, Token_subtree_tokens(A, self, order), <<>>,
                          2 * capacity(A) + 2)

(* SubtreeMut run to its end: the tokens of the nodes it yields; it ends  *)
(* silently on a token that get_mut does not find.                         *)
RECURSIVE SubtreeMut_collect(_, _, _, _)
SubtreeMut_collect(A, iter, acc, fuel) ==
    IF iter.panic # "" THEN [toks |-> acc, panic |-> iter.panic]
    ELSE IF fuel = 0 THEN [toks |-> acc, panic |-> "diverge"]
    ELSE
    LET r == SubtreeTokens_next(A, iter) IN
    IF r.iter.panic # "" THEN [toks |-> acc, panic |-> r.iter.panic]
    ELSE IF r.item = None \/ ~is_valid_token(A, r.item)
    THEN [toks |-> acc, panic |-> ""]
    ELSE SubtreeMut_collect(A, r.iter, Append(acc, r.item), fuel - 1)

(* Token::subtree_mut: the iterator as constructed *)
Token_subtree_mut(A, self, order) == Token_subtree_tokens(A, self, order)

(* self.subtree_mut(arena, order) run to its end *)
subtree_mut(A, self, order) ==
    SubtreeMut_collect(A, Token_subtree_mut(A, self, order), <<>>,
                       2 * capacity(A) + 2)

----------------------------------------------------------------------------
(* token.rs: the constructors of the single-link iterators.  The value is  *)
(* the iterator as constructed (its node_token and the link it follows),   *)
(* or the panic of the constructor.                                        *)

Iter(node_token, field, msg) ==
    [node_token |-> node_token, field |-> field, panic |-> msg]

(* match arena.get(self) { Some(n) => n.<link>, None => panic!(..) } *)
Checked(A, self, link, field) ==
    IF ~is_valid_token(A, self) THEN Iter(None, field, "Invalid token")
    ELSE Iter(get(A, self)[link], field, "")

(* an ancestors_tokens that starts the walk at self *)
Token_ancestors_tokens_self(A, self) ==
    IF ~is_valid_token(A, self) THEN Iter(None, "parent", "Invalid token")
    ELSE Iter(self, "parent", "")

Token_ancestors_tokens(A, self) == Checked(A, self, "parent", "parent")

Token_preceding_siblings_tokens(A, self) ==
    Checked(A, self, "previous_sibling", "previous_sibling")

Token_following_siblings_tokens(A, self) ==
    Checked(A, self, "next_sibling", "next_sibling")

Token_children_tokens_iter(A, self) ==
    Checked(A, self, "first_child", "next_sibling")

(* Token::ancestors_mut: no look-up; the walk starts at self *)
Token_ancestors_mut(A, self) == Iter(self, "parent", "")

Token_preceding_siblings_mut(A, self) ==
    Checked(A, self, "previous_sibling", "previous_sibling")

Token_following_siblings_mut(A, self) ==
    Checked(A, self, "next_sibling", "next_sibling")

Token_children_mut(A, self) == Checked(A, self, "first_child", "next_sibling")

(* collect() of a token iterator, and a mutable iterator run to its end *)
Tokens_collect(A, it) ==
    IF it.panic # "" THEN [toks |-> <<>>, panic |-> it.panic]
    ELSE iterator_token(A, it.node_token, it.field, <<>>, capacity(A))

Mut_collect(A, it) ==
    IF it.panic # "" THEN [toks |-> <<>>, panic |-> it.panic]
    ELSE iterator_mut(A, it.node_token, it.field, <<>>, capacity(A))

----------------------------------------------------------------------------
(* node.rs: the methods of Node, which call the methods of Token on the    *)
(* node's token field.                                                     *)

Node_token(node) == node.token

Node_ancestors_tokens(A, node) ==
    Tokens_collect(A, Token_ancestors_tokens(A, node.token))

Node_preceding_siblings_tokens(A, node) ==
    Tokens_collect(A, Token_preceding_siblings_tokens(A, node.token))

Node_following_siblings_tokens(A, node) ==
    Tokens_collect(A, Token_following_siblings_tokens(A, node.token))

Node_children_tokens(A, node) ==
    Tokens_collect(A, Token_children_tokens_iter(A, node.token))

Node_subtree_tokens(A, node, order) == subtree_tokens(A, node.token, order)

----------------------------------------------------------------------------
(* token.rs / arena.rs: the tree engine *)

(* Token::remove_descendants: the while loop *)
(* the loop with the slot freed before its successor is computed *)
RECURSIVE remove_descendants_loop_eager(_, _, _, _, _)
remove_descendants_loop_eager(A, self, token, branch, fuel) ==
    LET Stepped(A1, nx) ==
            IF nx.panic # "" THEN Panic(A1, nx.panic)
            ELSE IF nx.tok = None
            THEN Panic(A1, "called Option::unwrap() on a None value")
            ELSE remove_descendants_loop_eager(A1, self, nx.tok, nx.branch,
                                               fuel - 1)
        Freed(A1) == Stepped(A1, postorder_next(token, self, branch, A1))
    IN  IF ~Running(A) \/ branch = "None" THEN A
        ELSE IF fuel = 0 THEN Panic(A, "diverge")
        ELSE Freed(Allocator_remove(A, token))

RECURSIVE remove_descendants_loop(_, _, _, _, _)
remove_descendants_loop(A, self, token, branch, fuel) ==
    LET Stepped(nx) ==
            IF nx.panic # "" THEN Panic(A, nx.panic)
            ELSE IF nx.tok = None
            THEN Panic(Allocator_remove(A, token),
                       "called Option::unwrap() on a None value")
            ELSE remove_descendants_loop(Allocator_remove(A, token), self,
                                         nx.tok, nx.branch, fuel - 1)
    IN  IF ~Running(A) \/ branch = "None" THEN A
        ELSE IF fuel = 0 THEN Panic(A, "diverge")
        ELSE Stepped(postorder_next(token, self, branch, A))

(* Token::remove_descendants *)
Token_remove_descendants(A, self) ==
    LET Removed(A1) ==
            IF ~Running(A1) THEN A1
            ELSE IF ~is_valid_token(A1, self) THEN Panic(A1, "Invalid token")
            ELSE SetField(A1, self, "first_child", None)
        Started(first) ==
            IF first.panic # "" THEN Panic(A, first.panic)
            ELSE IF first.tok = None THEN A
            ELSE Removed(remove_descendants_loop(A, self, first.tok,
                                                 first.branch,
                                                 capacity(A) + 1))
    IN  IF ~Running(A) THEN A
        ELSE Started(postorder_next(self, self, "Child", A))

(* Arena::set; Node::remove_descendants of the node that was replaced      *)
(* runs on that node's token field.                                        *)
Arena_set(A, indx, node) ==
    LET Replaced(A1) ==
            IF is_valid_token(A, indx)
            THEN Token_remove_descendants(A1, get(A, indx).token)
            ELSE A1
    IN  IF ~Running(A) THEN A
        ELSE Replaced(Allocator_set(A, indx, node))

(* a new_node that fills the token field as with_data does *)
Arena_new_node_default(A, data) ==
    LET Headed(A1) ==
            LET token == A1.ret
                node == Node(data, TokenDefault, None, None, None, None)
            IN  [Allocator_set(A1, token, node) EXCEPT !.ret = token]
    IN  Headed(Allocator_head(A))

(* Arena::new_node *)
Arena_new_node(A, data) ==
    LET Headed(A1) ==
            LET token == A1.ret
                node == Node(data, token, None, None, None, None)
            IN  [Allocator_set(A1, token, node) EXCEPT !.ret = token]
    IN  Headed(Allocator_head(A))

(* Token::append *)
Token_append(A, self, data) ==
    LET Linked(A1, children) ==
            LET new_node_token == A1.ret
                last_child == IF children.toks = <<>> THEN None
                              ELSE children.toks[Len(children.toks)]
                A2 == IF last_child = None
                      THEN SetField(A1, self, "first_child", new_node_token)
                      ELSE SetField(A1, last_child, "next_sibling",
                                    new_node_token)
                previous_sibling == IF last_child = None THEN None
                                    ELSE get(A1, last_child).token
                node == Node(data, new_node_token, self, previous_sibling,
                             None, None)
            IN  IF children.panic # "" THEN Panic(A1, children.panic)
                ELSE [Arena_set(A2, new_node_token, node)
                         EXCEPT !.ret = new_node_token]
        Headed(A1) ==
            IF ~Running(A1) THEN A1
            ELSE IF ~is_valid_token(A1, self) THEN Panic(A1, "Invalid token")
            ELSE Linked(A1, ChildrenMut(A1, get(A1, self).first_child))
    IN  Headed(Allocator_head(A))

(* Token::insert_before *)
Token_insert_before(A, self, data) ==
    LET Headed(A1) ==
            LET new_node_token == A1.ret
                self_parent == get(A1, self).parent
                self_previous_sibling == get(A1, self).previous_sibling
                A2 == SetField(A1, self, "previous_sibling", new_node_token)
            IN
            IF ~Running(A1) THEN A1
            ELSE IF ~is_valid_token(A1, self) THEN Panic(A1, "Invalid token")
            ELSE IF self_previous_sibling # None
            THEN IF ~is_valid_token(A2, self_previous_sibling)
                 THEN Panic(A2, "Corrupt arena")
                 ELSE [Arena_set(SetField(A2, self_previous_sibling,
                                          "next_sibling", new_node_token),
                                 new_node_token,
                                 Node(data, new_node_token, self_parent,
                                      self_previous_sibling, self, None))
                          EXCEPT !.ret = new_node_token]
            ELSE IF self_parent = None
            THEN Panic(A2, "Cannot insert as the previous sibling of the root node")
            ELSE IF ~is_valid_token(A2, self_parent)
            THEN Panic(A2, "Corrupt arena")
            ELSE [Arena_set(SetField(A2, self_parent, "first_child",
                                     new_node_token),
                            new_node_token,
                            Node(data, new_node_token, self_parent, None,
                                 self, None))
                     EXCEPT !.ret = new_node_token]
    IN  Headed(Allocator_head(A))

(* Token::insert_after *)
Token_insert_after(A, self, data) ==
    LET Headed(A1) ==
            LET new_node_token == A1.ret
                self_parent == get(A1, self).parent
                self_next_sibling == get(A1, self).next_sibling
                A2 == SetField(A1, self, "next_sibling", new_node_token)
                A3 == IF self_next_sibling = None THEN A2
                      ELSE SetField(A2, self_next_sibling,
                                    "previous_sibling", new_node_token)
                node == Node(data, new_node_token, self_parent, self,
                             self_next_sibling, None)
            IN
            IF ~Running(A1) THEN A1
            ELSE IF ~is_valid_token(A1, self) THEN Panic(A1, "Invalid token")
            ELSE IF /\ self_next_sibling # None
                    /\ ~is_valid_token(A2, self_next_sibling)
            THEN Panic(A2, "Corrupt arena")
            ELSE [Arena_set(A3, new_node_token, node)
                     EXCEPT !.ret = new_node_token]
    IN  Headed(Allocator_head(A))

(* Token::detach *)
Token_detach(A, self) ==
    IF ~Running(A) THEN A
    ELSE IF ~is_valid_token(A, self) THEN Panic(A, "Invalid token")
    ELSE
    LET parent == get(A, self).parent
        previous_sibling == get(A, self).previous_sibling
        next_sibling == get(A, self).next_sibling
        A1 == SetField(SetField(SetField(A, self, "parent", None),
                                self, "previous_sibling", None),
                       self, "next_sibling", None)
        A2 == IF previous_sibling # None
              THEN IF ~is_valid_token(A1, previous_sibling)
                   THEN Panic(A1, "Corrupt arena")
                   ELSE SetField(A1, previous_sibling, "next_sibling",
                                 next_sibling)
              ELSE IF parent # None
                   THEN IF ~is_valid_token(A1, parent)
                        THEN Panic(A1, "Corrupt arena")
                        ELSE SetField(A1, parent, "first_child", next_sibling)
                   ELSE A1
    IN  IF ~Running(A2) \/ next_sibling = None THEN A2
        ELSE IF ~is_valid_token(A2, next_sibling)
        THEN Panic(A2, "Corrupt arena")
        ELSE SetField(A2, next_sibling, "previous_sibling", previous_sibling)

(* Token::replace_node with the test of other left at its parent link *)
Token_replace_node_parent_only(A, self, other) ==
    IF ~Running(A) THEN A
    ELSE IF ~is_valid_token(A, self) \/ ~is_valid_token(A, other)
    THEN Panic(A, "Invalid token")
    ELSE
    LET parent == get(A, self).parent
        previous_sibling == get(A, self).previous_sibling
        next_sibling == get(A, self).next_sibling
        other_node == get(A, other)
    IN
    IF ~(other_node.parent = None)
    THEN [A EXCEPT !.err = "NotAFreeNode"]
    ELSE
    LET A1 == SetField(SetField(SetField(A, other, "parent", parent),
                                other, "next_sibling", next_sibling),
                       other, "previous_sibling", previous_sibling)
        A2 == SetField(SetField(SetField(A1, self, "parent", None),
                                self, "previous_sibling", None),
                       self, "next_sibling", None)
        A3 == IF previous_sibling # None
              THEN IF ~is_valid_token(A2, previous_sibling)
                   THEN Panic(A2, "Corrupt arena")
                   ELSE SetField(A2, previous_sibling, "next_sibling", other)
              ELSE IF parent # None
                   THEN IF ~is_valid_token(A2, parent)
                        THEN Panic(A2, "Corrupt arena")
                        ELSE SetField(A2, parent, "first_child", other)
                   ELSE A2
    IN  IF ~Running(A3) \/ next_sibling = None THEN A3
        ELSE IF ~is_valid_token(A3, next_sibling)
        THEN Panic(A3, "Corrupt arena")
        ELSE SetField(A3, next_sibling, "previous_sibling", other)

(* Token::replace_node *)
Token_replace_node(A, self, other) ==
    IF ~Running(A) THEN A
    ELSE IF ~is_valid_token(A, self) \/ ~is_valid_token(A, other)
    THEN Panic(A, "Invalid token")
    ELSE
    LET parent == get(A, self).parent
        previous_sibling == get(A, self).previous_sibling
        next_sibling == get(A, self).next_sibling
        other_node == get(A, other)
    IN
    IF ~(/\ other_node.previous_sibling = None
         /\ other_node.next_sibling = None
         /\ other_node.parent = None)
    THEN [A EXCEPT !.err = "NotAFreeNode"]
    ELSE
    LET A1 == SetField(SetField(SetField(A, other, "parent", parent),
                                other, "next_sibling", next_sibling),
                       other, "previous_sibling", previous_sibling)
        A2 == SetField(SetField(SetField(A1, self, "parent", None),
                                self, "previous_sibling", None),
                       self, "next_sibling", None)
        A3 == IF previous_sibling # None
              THEN IF ~is_valid_token(A2, previous_sibling)
                   THEN Panic(A2, "Corrupt arena")
                   ELSE SetField(A2, previous_sibling, "next_sibling", other)
              ELSE IF parent # None
                   THEN IF ~is_valid_token(A2, parent)
                        THEN Panic(A2, "Corrupt arena")
                        ELSE SetField(A2, parent, "first_child", other)
                   ELSE A2
    IN  IF ~Running(A3) \/ next_sibling = None THEN A3
        ELSE IF ~is_valid_token(A3, next_sibling)
        THEN Panic(A3, "Corrupt arena")
        ELSE SetField(A3, next_sibling, "previous_sibling", other)

(* the loop of Arena::remove left out: the children keep their parent *)
clear_parents_skipped(A, toks) == A

(* for child in ... { child.parent = None } *)
RECURSIVE clear_parents(_, _)
clear_parents(A, toks) ==
    IF toks = <<>> THEN A
    ELSE clear_parents(SetField(A, Head(toks), "parent", None), Tail(toks))

(* Arena::remove *)
Arena_remove(A, token) ==
    LET Freed(A3, iter) ==
            IF iter.panic # "" THEN Panic(A3, iter.panic)
            ELSE [A3 EXCEPT !.toks = iter.toks]
        Cleared(A2) ==
            Freed(Allocator_remove(A2, token),
                  ChildrenTokens(Allocator_remove(A2, token),
                                 get(A2, token).first_child))
        Walked(A1, children) ==
            IF children.panic # "" THEN Panic(A1, children.panic)
            ELSE Cleared(clear_parents(A1, children.toks))
        Detached(A1) ==
            IF ~Running(A1) THEN A1
            ELSE Walked(A1, ChildrenMut(A1, get(A1, token).first_child))
    IN  Detached(Token_detach(A, token))

(* node_operation *)
node_operation(A, self_token, other_token, func) ==
    LET Replaced(A2, token) ==
            IF ~Running(A2) \/ A2.err # "" THEN [A2 EXCEPT !.ret = None]
            ELSE [Arena_remove(A2, token) EXCEPT !.ret = None, !.toks = <<>>]
        Made(A1) ==
            Replaced(Token_replace_node(A1, A1.ret, other_token), A1.ret)
    IN  Made(CASE func = "append" ->
                     Token_append(A, self_token, DummyData)
               [] func = "insert_before" ->
                     Token_insert_before(A, self_token, DummyData)
               [] func = "insert_after" ->
                     Token_insert_after(A, self_token, DummyData))

(* Token::append_node, insert_node_before, insert_node_after *)
Token_append_node(A, self, other) ==
    node_operation(A, self, other, "append")

Token_insert_node_before(A, self, other) ==
    node_operation(A, self, other, "insert_before")

Token_insert_node_after(A, self, other) ==
    node_operation(A, self, other, "insert_after")

(* Arena::uproot *)
Arena_uproot(A, token) ==
    LET Fixed(A2, node) ==
            LET otkn == node.previous_sibling
                ytkn == node.next_sibling
                ptkn == node.parent
            IN
            IF ptkn # None /\ otkn # None /\ ytkn # None
            THEN IF ~is_valid_token(A2, otkn) THEN Panic(A2, "Corrupt tree")
                 ELSE IF ~is_valid_token(A2, ytkn)
                 THEN Panic(SetField(A2, otkn, "next_sibling", ytkn),
                            "Corrupt tree")
                 ELSE SetField(SetField(A2, otkn, "next_sibling", ytkn),
                               ytkn, "previous_sibling", otkn)
            ELSE IF ptkn # None /\ otkn # None
            THEN IF ~is_valid_token(A2, otkn) THEN Panic(A2, "Corrupt tree")
                 ELSE SetField(A2, otkn, "next_sibling", None)
            ELSE IF ptkn # None /\ ytkn # None
            THEN IF ~is_valid_token(A2, ptkn) THEN Panic(A2, "Corrupt tree")
                 ELSE SetField(A2, ptkn, "first_child", ytkn)
            ELSE IF ptkn # None
            THEN IF ~is_valid_token(A2, ptkn) THEN Panic(A2, "Corrupt tree")
                 ELSE SetField(A2, ptkn, "first_child", None)
            ELSE IF otkn = None /\ ytkn = None THEN A2
            ELSE Panic(A2, "Corrupt tree")
        Emptied(A1) ==
            IF ~Running(A1) THEN A1
            ELSE IF ~is_valid_token(A1, token) THEN Panic(A1, "Invalid token")
            ELSE Fixed(Allocator_remove(A1, token), get(A1, token))
    IN  Emptied(Token_remove_descendants(A, token))

(* Arena::overwrite *)
Arena_overwrite(A, indx, data) ==
    LET Emptied(A1) ==
            IF ~Running(A1) \/ ~is_valid_token(A1, indx) THEN A1
            ELSE SetField(A1, indx, "data", data)
    IN  Emptied(Token_remove_descendants(A, indx))

(* Arena::with_data *)
Arena_with_data(data) ==
    LET root_node == Node(data, TokenDefault, None, None, None, None)
        allocator == [data |-> <<Nothing(None)>>, head |-> 1, len |-> 0]
    IN  Allocator_insert(Run(allocator), root_node)

(* Arena::copy_and_append_subtree: the loop over the stack.  index_map is  *)
(* the HashMap from tokens of other_tree to tokens of self, None where it  *)
(* has no entry.                                                           *)
RECURSIVE copy_loop(_, _, _, _, _, _, _)
copy_loop(A, other_tree, other_token, index_map, stack, branch, fuel) ==
    LET token == stack[Len(stack)]
        node == get(other_tree, token)
        child == node.first_child
        popped == SubSeq(stack, 1, Len(stack) - 1)
        Appended(A1) ==
            copy_loop(A1, other_tree, other_token,
                      [index_map EXCEPT ![child] = A1.ret],
                      Append(stack, child), branch, fuel - 1)
    IN
    IF ~Running(A) THEN A
    ELSE IF fuel = 0 THEN Panic(A, "diverge")
    ELSE IF stack = <<>>
    THEN Panic(A, "called Option::unwrap() on a None value")
    ELSE IF ~is_valid_token(other_tree, token) THEN Panic(A, "Invalid token")
    ELSE IF branch = "Child"
    THEN IF child = None
         THEN copy_loop(A, other_tree, other_token, index_map, stack,
                        "Sibling", fuel - 1)
         ELSE IF ~is_valid_token(other_tree, child)
         THEN Panic(A, "Corrupt tree")
         ELSE IF index_map[token] = None
         THEN Panic(A, "no entry found for key")
         ELSE Appended(Token_append(A, index_map[token],
                                    get(other_tree, child).data))
    ELSE IF token = other_token THEN A
    ELSE IF node.next_sibling = None
    THEN copy_loop(A, other_tree, other_token, index_map, popped,
                   "Sibling", fuel - 1)
    ELSE copy_loop(A, other_tree, other_token, index_map,
                   Append(popped, node.next_sibling), "Child", fuel - 1)

(* Arena::copy_and_append_subtree *)
Arena_copy_and_append_subtree(A, self_token, other_tree, other_token) ==
    LET Rooted(A1) ==
            copy_loop(A1, other_tree, other_token,
                      [i \in 1..Len(other_tree.data) |->
                          IF i = other_token THEN A1.ret ELSE None],
                      <<other_token>>, "Child",
                      4 * Len(other_tree.data) + 4)
    IN  IF ~Running(A) THEN A
        ELSE IF ~is_valid_token(other_tree, other_token)
        THEN Panic(A, "Invalid token")
        ELSE [Rooted(Token_append(A, self_token,
                                  get(other_tree, other_token).data))
                 EXCEPT !.ret = None]

(* Arena::split_at: the for loop over the children of token *)
RECURSIVE split_at_loop(_, _, _, _)
split_at_loop(B, root, other_tree, toks) ==
    IF toks = <<>> THEN B
    ELSE split_at_loop(Arena_copy_and_append_subtree(B, root, other_tree,
                                                     Head(toks)),
                       root, other_tree, Tail(toks))

(* Arena::split_at *)
Arena_split_at(A, token) ==
    LET Copied(B, root, children) ==
            IF ~Running(B) THEN Panic(A, B.panic)
            ELSE IF children.panic # "" THEN Panic(A, children.panic)
            ELSE [Arena_uproot(A, token)
                     EXCEPT !.ret = root, !.tree = Fields(B)]
        Made(B, children) ==
            Copied(split_at_loop(B, B.ret, Fields(A), children.toks), B.ret,
                   children)
    IN  IF ~Running(A) THEN A
        ELSE IF ~is_valid_token(A, token) THEN Panic(A, "Invalid token")
        ELSE Made(Arena_with_data(get(A, token).data),
                  Token_children_tokens(A, token))

----------------------------------------------------------------------------
(* The program: one arena made by with_data, driven through the public     *)
(* operations with tokens of occupied nodes.  A panic ends the program.    *)

Tokens == {t \in 1..Len(arena.data) : arena.data[t].just}

(* The tokens on the parent chain of `token`, `token` included. *)
RECURSIVE AncestorsOrSelf(_, _, _)
AncestorsOrSelf(a, token, fuel) ==
    IF token = None \/ fuel = 0 \/ token \notin 1..Len(a.data) THEN {}
    ELSE IF ~a.data[token].just THEN {}
    ELSE {token} \cup AncestorsOrSelf(a, a.data[token].node.parent, fuel - 1)

(* An attach of `other` at `self` is disjoint when `self` does not lie in  *)
(* the subtree of `other`.                                                 *)
Disjoint(self, other) ==
    other \notin AncestorsOrSelf(arena, self, Len(arena.data))

(* The program is still running and may make another call. *)
Live == panic = "" /\ calls < MaxCalls

(* A call is made only if the arena holds at most MaxNodes nodes after it. *)
Fits(A) == A.len <= MaxNodes

Commit(op, tok, other, A) ==
    /\ arena' = Fields(A)
    /\ panic' = A.panic
    /\ last' = [op |-> op, tok |-> tok, other |-> other, ret |-> A.ret,
                toks |-> A.toks, err |-> A.err, tree |-> A.tree]
    /\ calls' = calls + 1

(* A call that creates a node *)
CommitNew(op, tok, A) == Fits(A) /\ Commit(op, tok, None, A)

(* The arena of the example of copy_and_append_subtree, as far as its root *)
(* and the root's two children.                                            *)
TwoChildren ==
    Fields(Token_append(Token_append(Arena_with_data(1), 1, 2), 1, 3))

(* The arenas a subtree is copied from: a clone of the arena itself, and   *)
(* the arena of the example.                                               *)
Sources == {arena, TwoChildren}

Init ==
    LET A == Arena_with_data(1) IN
    /\ arena = Fields(A)
    /\ panic = ""
    /\ last = [op |-> "with_data", tok |-> None, other |-> None,
               ret |-> A.ret, toks |-> <<>>, err |-> "", tree |-> NoArena]
    /\ calls = 0

DoNewNode ==
    /\ Live
    /\ \E d \in Data :
          CommitNew("new_node", None, Arena_new_node(Run(arena), d))

DoAppend ==
    /\ Live
    /\ \E t \in Tokens, d \in Data :
          CommitNew("append", t, Token_append(Run(arena), t, d))

DoInsertBefore ==
    /\ Live
    /\ \E t \in Tokens, d \in Data :
          CommitNew("insert_before", t,
                    Token_insert_before(Run(arena), t, d))

DoInsertAfter ==
    /\ Live
    /\ \E t \in Tokens, d \in Data :
          CommitNew("insert_after", t, Token_insert_after(Run(arena), t, d))

DoDetach ==
    /\ Live
    /\ \E t \in Tokens :
          Commit("detach", t, None, Token_detach(Run(arena), t))

DoReplaceNode ==
    /\ Live
    /\ \E t \in Tokens, o \in Tokens :
          /\ Disjoint(t, o)
          /\ Commit("replace_node", t, o,
                    Token_replace_node(Run(arena), t, o))

DoAppendNode ==
    /\ Live /\ arena.len < MaxNodes
    /\ \E t \in Tokens, o \in Tokens :
          /\ Disjoint(t, o)
          /\ Commit("append_node", t, o, Token_append_node(Run(arena), t, o))

DoInsertNodeBefore ==
    /\ Live /\ arena.len < MaxNodes
    /\ \E t \in Tokens, o \in Tokens :
          /\ Disjoint(t, o)
          /\ Commit("insert_node_before", t, o,
                    Token_insert_node_before(Run(arena), t, o))

DoInsertNodeAfter ==
    /\ Live /\ arena.len < MaxNodes
    /\ \E t \in Tokens, o \in Tokens :
          /\ Disjoint(t, o)
          /\ Commit("insert_node_after", t, o,
                    Token_insert_node_after(Run(arena), t, o))

DoRemove ==
    /\ Live
    /\ \E t \in Tokens :
          Commit("remove", t, None, Arena_remove(Run(arena), t))

DoUproot ==
    /\ Live
    /\ \E t \in Tokens :
          Commit("uproot", t, None, Arena_uproot(Run(arena), t))

DoRemoveDescendants ==
    /\ Live
    /\ \E t \in Tokens :
          Commit("remove_descendants", t, None,
                 Token_remove_descendants(Run(arena), t))

DoOverwrite ==
    /\ Live
    /\ \E t \in Tokens, d \in Data :
          Commit("overwrite", t, None, Arena_overwrite(Run(arena), t, d))

DoCopyAndAppendSubtree ==
    /\ Live
    /\ \E t \in Tokens, src \in Sources :
          \E o \in {i \in 1..Len(src.data) : src.data[i].just} :
             LET Done(A) ==
                    /\ Fits(A)
                    /\ Commit("copy_and_append_subtree", t, o,
                              [A EXCEPT !.tree = src])
             IN  Done(Arena_copy_and_append_subtree(Run(arena), t, src, o))

DoSplitAt ==
    /\ Live
    /\ \E t \in Tokens :
          Commit("split_at", t, None, Arena_split_at(Run(arena), t))

Next ==
    \/ DoNewNode
    \/ DoAppend
    \/ DoInsertBefore
    \/ DoInsertAfter
    \/ DoDetach
    \/ DoReplaceNode
    \/ DoAppendNode
    \/ DoInsertNodeBefore
    \/ DoInsertNodeAfter
    \/ DoRemove
    \/ DoUproot
    \/ DoRemoveDescendants
    \/ DoOverwrite

Spec == Init /\ [][Next]_vars

(* The program that builds trees by new_node and append and copies         *)
(* subtrees between arenas.                                                *)
NextCopy ==
    \/ DoNewNode
    \/ DoAppend
    \/ DoCopyAndAppendSubtree
    \/ DoSplitAt

SpecCopy == Init /\ [][NextCopy]_vars

(* The program that creates nodes and removes nodes. *)
NextReuse ==
    \/ DoNewNode
    \/ DoAppend
    \/ DoInsertBefore
    \/ DoInsertAfter
    \/ DoRemove
    \/ DoUproot

SpecReuse == Init /\ [][NextReuse]_vars

----------------------------------------------------------------------------
(* The vocabulary of the properties: the tree an arena value holds.        *)

Occupied(a) == {t \in 1..Len(a.data) : a.data[t].just}
NodeAt(a, t) == a.data[t].node

(* The child chain of n: first_child, then next_sibling links, as far as   *)
(* they lead through occupied slots not met before.                        *)
RECURSIVE ChainFrom(_, _, _)
ChainFrom(a, t, acc) ==
    IF t = None \/ t \notin Occupied(a) THEN acc
    ELSE IF \E i \in 1..Len(acc) : acc[i] = t THEN acc
    ELSE ChainFrom(a, NodeAt(a, t).next_sibling, Append(acc, t))

ChildChain(a, n) == ChainFrom(a, NodeAt(a, n).first_child, <<>>)

Range(seq) == {seq[i] : i \in 1..Len(seq)}
NoDuplicates(seq) == \A i, j \in 1..Len(seq) : seq[i] = seq[j] => i = j

(* The four-link invariants of the data model, over the occupied nodes. *)
LinkFirstChild(a, n) ==
    LET c == NodeAt(a, n).first_child IN
    c # None => /\ c \in Occupied(a)
                /\ NodeAt(a, c).parent = n
                /\ NodeAt(a, c).previous_sibling = None

LinkSiblings(a, n) ==
    LET nx == NodeAt(a, n).next_sibling
        pv == NodeAt(a, n).previous_sibling
    IN  /\ nx # None => nx \in Occupied(a) /\ NodeAt(a, nx).previous_sibling = n
        /\ pv # None => pv \in Occupied(a) /\ NodeAt(a, pv).next_sibling = n

LinkChildren(a, n) ==
    \A c \in Range(ChildChain(a, n)) : NodeAt(a, c).parent = n

LinkRoot(a, n) ==
    NodeAt(a, n).parent = None =>
        /\ NodeAt(a, n).previous_sibling = None
        /\ NodeAt(a, n).next_sibling = None

FourLinks(a) ==
    \A n \in Occupied(a) :
        /\ LinkFirstChild(a, n)
        /\ LinkSiblings(a, n)
        /\ LinkChildren(a, n)
        /\ LinkRoot(a, n)

(* A well-formed forest: the four links, every parent occupied and holding *)
(* the node in its child chain, and every parent chain ending at a root.   *)
WellFormed(a) ==
    /\ FourLinks(a)
    /\ \A n \in Occupied(a) :
          LET p == NodeAt(a, n).parent IN
          /\ p # None => p \in Occupied(a) /\ n \in Range(ChildChain(a, p))
          /\ \E r \in AncestorsOrSelf(a, n, Len(a.data)) :
                NodeAt(a, r).parent = None

(* The subtree of x by the parent relation: x and the nodes below it. *)
Subtree(a, x) ==
    {n \in Occupied(a) : x \in AncestorsOrSelf(a, n, Len(a.data))}

RECURSIVE Concat(_)
Concat(seqs) == IF seqs = <<>> THEN <<>> ELSE Head(seqs) \o Concat(Tail(seqs))

(* The orders of a traversal, by their definitions. *)
RECURSIVE PreOrder(_, _, _)
PreOrder(a, x, fuel) ==
    IF fuel = 0 THEN <<>>
    ELSE LET ch == ChildChain(a, x) IN
         <<x>> \o Concat([i \in 1..Len(ch) |-> PreOrder(a, ch[i], fuel - 1)])

RECURSIVE PostOrder(_, _, _)
PostOrder(a, x, fuel) ==
    IF fuel = 0 THEN <<>>
    ELSE LET ch == ChildChain(a, x) IN
         Concat([i \in 1..Len(ch) |-> PostOrder(a, ch[i], fuel - 1)]) \o <<x>>

RECURSIVE LevelOrder(_, _, _)
LevelOrder(a, level, fuel) ==
    IF level = <<>> \/ fuel = 0 THEN <<>>
    ELSE level \o LevelOrder(a,
            Concat([i \in 1..Len(level) |-> ChildChain(a, level[i])]),
            fuel - 1)

Yields(seq) == [toks |-> seq, panic |-> ""]

----------------------------------------------------------------------------
(* C1: after any sequence of calls made with tokens of occupied nodes and  *)
(* disjoint attaches, every occupied node satisfies the four-link          *)
(* invariants (first child, mutual sibling links, children's parent, a     *)
(* parentless node has no siblings).                                       *)
C1_FourLinkInvariants == panic = "" => FourLinks(arena)

(* C2: on a well-formed tree subtree_tokens(X, Pre) yields X and then its  *)
(* proper descendants in depth-first pre-order, each once, and nothing     *)
(* outside the subtree of X.                                               *)
C2_PreOrder ==
    WellFormed(arena) =>
        \A x \in Tokens :
            LET got == subtree_tokens(Run(arena), x, "Pre") IN
            /\ got = Yields(PreOrder(arena, x, Len(arena.data)))
            /\ Range(got.toks) = Subtree(arena, x)
            /\ NoDuplicates(got.toks)
            /\ got.toks[1] = x

C2_Witness ==
    /\ WellFormed(arena)
    /\ \E x \in Tokens :
          /\ NodeAt(arena, x).parent # None
          /\ NodeAt(arena, x).next_sibling # None
          /\ NodeAt(arena, x).first_child # None
          /\ subtree_tokens(Run(arena), x, "Pre").toks
                = <<x, NodeAt(arena, x).first_child>>

(* C3: on a well-formed tree subtree_tokens(X, Post) yields the subtree of *)
(* X in post-order, each node once, X last; a leaf yields just itself.     *)
C3_PostOrder ==
    WellFormed(arena) =>
        \A x \in Tokens :
            LET got == subtree_tokens(Run(arena), x, "Post") IN
            /\ got = Yields(PostOrder(arena, x, Len(arena.data)))
            /\ Range(got.toks) = Subtree(arena, x)
            /\ NoDuplicates(got.toks)
            /\ got.toks[Len(got.toks)] = x
            /\ NodeAt(arena, x).first_child = None => got.toks = <<x>>

C3_Witness ==
    /\ WellFormed(arena)
    /\ \E x \in Tokens :
          /\ NodeAt(arena, x).parent # None
          /\ NodeAt(arena, x).next_sibling # None
          /\ NodeAt(arena, x).first_child # None
          /\ subtree_tokens(Run(arena), x, "Post").toks
                = <<NodeAt(arena, x).first_child, x>>

C5_UprootAsDetach ==
    [][ (last'.op = "uproot" /\ WellFormed(arena)) =>
          LET t == last'.tok
              sub == Subtree(arena, t)
              D == Token_detach(Run(arena), t)
          IN  /\ panic' = ""
              /\ Occupied(arena') = Occupied(arena) \ sub
              /\ arena'.len = arena.len - Cardinality(sub)
              /\ \A n \in Occupied(arena') : NodeAt(arena', n) = get(D, n)
      ]_vars

(* C6: remove_descendants(t) frees every proper descendant of t and not t: *)
(* afterwards t has no children, node_count has dropped by the number of   *)
(* proper descendants, t keeps its parent and sibling links, and every     *)
(* node outside t's subtree is unchanged.                                  *)
C6_RemoveDescendants ==
    [][ last'.op = "remove_descendants" =>
          LET t == last'.tok
              desc == Subtree(arena, t) \ {t}
          IN  /\ panic' = ""
              /\ Occupied(arena') = Occupied(arena) \ desc
              /\ arena'.len = arena.len - Cardinality(desc)
              /\ Token_children_tokens(Run(arena'), t) = Yields(<<>>)
              /\ NodeAt(arena', t) =
                    [NodeAt(arena, t) EXCEPT !.first_child = None]
              /\ \A n \in Occupied(arena) \ Subtree(arena, t) :
                    NodeAt(arena', n) = NodeAt(arena, n)
      ]_vars

(* The sequence seq with n put in place of its element s, or next to it. *)
IndexOf(seq, s) == CHOOSE i \in 1..Len(seq) : seq[i] = s
SpliceFor(seq, s, repl) ==
    LET i == IndexOf(seq, s) IN
    SubSeq(seq, 1, i - 1) \o repl \o SubSeq(seq, i + 1, Len(seq))

RootsOf(a, t) ==
    {r \in AncestorsOrSelf(a, t, Len(a.data)) : NodeAt(a, r).parent = None}

Orders == {"Pre", "Post", "Level"}

(* C8: Arena::remove(t) decreases node_count by exactly 1, returns the     *)
(* tokens of t's former children in sibling order, leaves each of them     *)
(* occupied with its subtree intact, and a traversal from the root of the  *)
(* tree that contained t then visits neither t nor a former descendant.    *)
C8_RemoveReturnsChildren ==
    [][ last'.op = "remove" =>
          LET t == last'.tok
              ch == ChildChain(arena, t)
              sub == Subtree(arena, t)
          IN  /\ panic' = ""
              /\ arena'.len = arena.len - 1
              /\ last'.toks = ch
              /\ \A c \in Range(ch) :
                    /\ c \in Occupied(arena')
                    /\ Subtree(arena', c) = Subtree(arena, c)
                    /\ \A o \in Orders :
                          subtree_tokens(Run(arena'), c, o) =
                              subtree_tokens(Run(arena), c, o)
              /\ \A r \in RootsOf(arena, t) \ {t} : \A o \in Orders :
                    LET got == subtree_tokens(Run(arena'), r, o) IN
                    got.panic = "" /\ Range(got.toks) \cap sub = {}
      ]_vars

(* C9: append(p, d) creates exactly one new node, p's last child:          *)
(* children_tokens(p) afterwards is the sequence before followed by the    *)
(* new token; the new node has parent p, no children, previous_sibling =   *)
(* p's former last child (none if p was a leaf); node_count grows by 1;    *)
(* no other link changes.                                                  *)
C9_Append ==
    [][ last'.op = "append" =>
          LET p == last'.tok
              n == last'.ret
              before == ChildChain(arena, p)
              lastc == IF before = <<>> THEN None ELSE before[Len(before)]
          IN  /\ panic' = ""
              /\ n \notin Occupied(arena)
              /\ Occupied(arena') = Occupied(arena) \cup {n}
              /\ arena'.len = arena.len + 1
              /\ Token_children_tokens(Run(arena'), p) =
                    Yields(Append(before, n))
              /\ NodeAt(arena', n).parent = p
              /\ NodeAt(arena', n).first_child = None
              /\ NodeAt(arena', n).next_sibling = None
              /\ NodeAt(arena', n).previous_sibling = lastc
              /\ \A m \in Occupied(arena) :
                    NodeAt(arena', m) =
                        IF m = lastc
                        THEN [NodeAt(arena, m) EXCEPT !.next_sibling = n]
                        ELSE IF m = p /\ lastc = None
                        THEN [NodeAt(arena, m) EXCEPT !.first_child = n]
                        ELSE NodeAt(arena, m)
      ]_vars

(* C10: for an occupied s with parent p, insert_before(s, d) and           *)
(* insert_after(s, d) create one new node n; children_tokens(p) afterwards *)
(* is the former sequence with n immediately before / after s; n has       *)
(* parent p and no children; p.first_child becomes n exactly when s was    *)
(* p's first child and the insertion is 'before'.                          *)
C10_InsertBeforeAfter ==
    [][ (/\ last'.op \in {"insert_before", "insert_after"}
         /\ NodeAt(arena, last'.tok).parent # None) =>
          LET s == last'.tok
              n == last'.ret
              p == NodeAt(arena, s).parent
              before == ChildChain(arena, p)
              isBefore == last'.op = "insert_before"
          IN  /\ panic' = ""
              /\ s \in Range(before)
              /\ n \notin Occupied(arena)
              /\ Occupied(arena') = Occupied(arena) \cup {n}
              /\ Token_children_tokens(Run(arena'), p) =
                    Yields(SpliceFor(before, s,
                                     IF isBefore THEN <<n, s>> ELSE <<s, n>>))
              /\ NodeAt(arena', n).parent = p
              /\ NodeAt(arena', n).first_child = None
              /\ (NodeAt(arena', p).first_child = n) <=>
                    (isBefore /\ NodeAt(arena, p).first_child = s)
      ]_vars

(* A free root: a node with no parent and no siblings. *)
FreeRoot(a, t) ==
    /\ NodeAt(a, t).parent = None
    /\ NodeAt(a, t).previous_sibling = None
    /\ NodeAt(a, t).next_sibling = None

(* The node with its three outward links cleared. *)
Unlinked(node) ==
    [node EXCEPT !.parent = None, !.previous_sibling = None,
                 !.next_sibling = None]

(* C11: detach(t) on an occupied t returns; it sets t's parent,            *)
(* previous_sibling and next_sibling to none, leaves t's first_child and   *)
(* every node below t untouched, and closes the gap: the former previous   *)
(* sibling's next_sibling (the former parent's first_child when there was  *)
(* no previous sibling) becomes the former next sibling, whose             *)
(* previous_sibling becomes the former previous sibling; node_count is     *)
(* unchanged, and detach of a free root changes nothing.                   *)
C11_Detach ==
    [][ last'.op = "detach" =>
          LET t == last'.tok
              node == NodeAt(arena, t)
              p == node.parent
              pv == node.previous_sibling
              nx == node.next_sibling
          IN  /\ panic' = ""
              /\ Occupied(arena') = Occupied(arena)
              /\ arena'.len = arena.len
              /\ NodeAt(arena', t) = Unlinked(node)
              /\ \A m \in Subtree(arena, t) \ {t} :
                    NodeAt(arena', m) = NodeAt(arena, m)
              /\ pv # None => NodeAt(arena', pv).next_sibling = nx
              /\ (pv = None /\ p # None) =>
                    NodeAt(arena', p).first_child = nx
              /\ nx # None => NodeAt(arena', nx).previous_sibling = pv
              /\ FreeRoot(arena, t) => arena' = arena
      ]_vars

(* C12: when other is a free root distinct from self,                      *)
(* self.replace_node(other) returns Ok; other then has self's former       *)
(* parent, previous and next sibling, and those neighbours (or the         *)
(* parent's first_child) point to other; self is a free root; the nodes    *)
(* below self and below other are unchanged.                               *)
C12_ReplaceNode ==
    [][ (/\ last'.op = "replace_node"
         /\ last'.other # last'.tok
         /\ FreeRoot(arena, last'.other)) =>
          LET s == last'.tok
              o == last'.other
              sn == NodeAt(arena, s)
          IN  /\ panic' = ""
              /\ last'.err = ""
              /\ Occupied(arena') = Occupied(arena)
              /\ NodeAt(arena', o) =
                    [NodeAt(arena, o) EXCEPT
                        !.parent = sn.parent,
                        !.previous_sibling = sn.previous_sibling,
                        !.next_sibling = sn.next_sibling]
              /\ sn.previous_sibling # None =>
                    NodeAt(arena', sn.previous_sibling).next_sibling = o
              /\ (sn.previous_sibling = None /\ sn.parent # None) =>
                    NodeAt(arena', sn.parent).first_child = o
              /\ sn.next_sibling # None =>
                    NodeAt(arena', sn.next_sibling).previous_sibling = o
              /\ NodeAt(arena', s) = Unlinked(sn)
              /\ \A m \in (Subtree(arena, s) \cup Subtree(arena, o))
                              \ {s, o} :
                    NodeAt(arena', m) = NodeAt(arena, m)
      ]_vars

(* C13: self.replace_node(other) returns Err(NotAFreeNode) exactly when    *)
(* other has a parent, a previous sibling or a next sibling, and then the  *)
(* arena after the call (every cell, the free list, node_count, capacity)  *)
(* is the arena before it.                                                 *)
C13_ReplaceNodeErr ==
    [][ last'.op = "replace_node" =>
          /\ (last'.err = "NotAFreeNode") <=> ~FreeRoot(arena, last'.other)
          /\ last'.err = "NotAFreeNode" =>
                /\ panic' = ""
                /\ arena' = arena
                /\ capacity(arena') = capacity(arena)
      ]_vars

C13_Witness ==
    /\ last.op = "replace_node"
    /\ last.err = "NotAFreeNode"
    /\ panic = ""
    /\ NodeAt(arena, last.other).parent # None
    /\ NodeAt(arena, last.other).next_sibling # None
    /\ NodeAt(arena, last.tok).parent # None

NodeOps == {"append_node", "insert_node_before", "insert_node_after"}

(* C14: append_node, insert_node_before and insert_node_after called with  *)
(* an other that is not a free root return Err(NotAFreeNode) and mutate    *)
(* nothing: node_count, the occupied slots and the child sequence of every *)
(* node are as before the call.                                            *)
C14_NodeOpErr ==
    [][ (last'.op \in NodeOps /\ ~FreeRoot(arena, last'.other)) =>
          /\ panic' = ""
          /\ last'.err = "NotAFreeNode"
          /\ arena'.len = arena.len
          /\ Occupied(arena') = Occupied(arena)
          /\ \A n \in Occupied(arena) :
                Token_children_tokens(Run(arena'), n) =
                    Token_children_tokens(Run(arena), n)
      ]_vars

(* C15: insert_before on a node with no parent fails, and nothing has been *)
(* mutated at the failure: the arena (every link of every node, the        *)
(* root's previous_sibling included, node_count and capacity) is the arena *)
(* before the call.                                                        *)
C15_InsertBeforeRoot ==
    [][ (/\ last'.op = "insert_before"
         /\ NodeAt(arena, last'.tok).parent = None) =>
          /\ panic' # ""
          /\ capacity(arena') = capacity(arena)
          /\ arena' = arena
      ]_vars

(* C16: for an occupied X and an occupied Y outside X's subtree,           *)
(* X.detach() followed by Y.append_node(X) returns Ok, makes X the last    *)
(* child of Y, leaves the pre-order token sequence of X's subtree as it    *)
(* was before the detach, and leaves node_count unchanged.                 *)
C16_DetachAppendNode ==
    panic = "" =>
        \A x \in Tokens : \A y \in Tokens \ Subtree(arena, x) :
            LET before == subtree_tokens(Run(arena), x, "Pre")
                R == Token_append_node(Token_detach(Run(arena), x), y, x)
                kids == Token_children_tokens(R, y)
            IN  /\ R.panic = ""
                /\ R.err = ""
                /\ kids.panic = ""
                /\ kids.toks # <<>>
                /\ kids.toks[Len(kids.toks)] = x
                /\ before.panic = ""
                /\ subtree_tokens(R, x, "Pre") = before
                /\ R.len = arena.len

(* The shape of a subtree, from its pre-order token sequence: the payload  *)
(* and the number of children of each node, in pre-order.                  *)
PreShape(a, toks) ==
    [i \in 1..Len(toks) |->
        <<NodeAt(a, toks[i]).data, Len(ChildChain(a, toks[i]))>>]

(* C17: copy_and_append_subtree(dest_parent, src_arena, src_token) returns *)
(* and adds, as the new last child of dest_parent, a copy of the source    *)
(* subtree: node_count grows by the size of the source subtree, and the    *)
(* copy has, in pre-order, the payloads and the numbers of children of the *)
(* source subtree; the former nodes of the destination stay occupied.      *)
C17_CopyAndAppendSubtree ==
    [][ last'.op = "copy_and_append_subtree" =>
          LET d == last'.tok
              src == last'.tree
              o == last'.other
              kids == Token_children_tokens(Run(arena'), d)
              copy == kids.toks[Len(kids.toks)]
              srcPre == subtree_tokens(Run(src), o, "Pre")
              copyPre == subtree_tokens(Run(arena'), copy, "Pre")
          IN  /\ panic' = ""
              /\ arena'.len = arena.len + Cardinality(Subtree(src, o))
              /\ Occupied(arena) \subseteq Occupied(arena')
              /\ kids.panic = ""
              /\ kids.toks = Append(ChildChain(arena, d), copy)
              /\ copy \notin Occupied(arena)
              /\ srcPre.panic = ""
              /\ copyPre.panic = ""
              /\ PreShape(arena', copyPre.toks) = PreShape(src, srcPre.toks)
      ]_vars

(* C18: split_at(X) returns; it frees X and all of its descendants in the  *)
(* original arena, whose node_count drops by the size of X's subtree and   *)
(* in which no traversal visits any of them; the returned arena holds,     *)
(* from the returned root, a copy of X's subtree: the same payloads and    *)
(* numbers of children in pre-order, and nothing else.                     *)
C18_SplitAt ==
    [][ last'.op = "split_at" =>
          LET x == last'.tok
              sub == Subtree(arena, x)
              new == last'.tree
              root == last'.ret
              srcPre == subtree_tokens(Run(arena), x, "Pre")
              newPre == subtree_tokens(Run(new), root, "Pre")
          IN  /\ panic' = ""
              /\ Occupied(arena') = Occupied(arena) \ sub
              /\ arena'.len = arena.len - Cardinality(sub)
              /\ \A r \in Occupied(arena'), ord \in Orders :
                    LET got == subtree_tokens(Run(arena'), r, ord) IN
                    got.panic = "" /\ Range(got.toks) \cap sub = {}
              /\ srcPre.panic = ""
              /\ newPre.panic = ""
              /\ PreShape(new, newPre.toks) = PreShape(arena, srcPre.toks)
              /\ new.len = Cardinality(sub)
      ]_vars

(* C19: overwrite(t, d) on an occupied t returns and has the effect of     *)
(* remove_descendants(t) followed by setting t's payload to d: t keeps its *)
(* token, parent, previous_sibling and next_sibling, has no children, and  *)
(* node_count drops by the number of t's former proper descendants, which  *)
(* are the slots freed.                                                    *)
C19_Overwrite ==
    [][ last'.op = "overwrite" =>
          LET t == last'.tok
              desc == Subtree(arena, t) \ {t}
              R == Token_remove_descendants(Run(arena), t)
          IN  /\ panic' = ""
              /\ \E d \in Data :
                    /\ arena' = Fields(SetField(R, t, "data", d))
                    /\ NodeAt(arena', t) =
                          [NodeAt(arena, t) EXCEPT !.first_child = None,
                                                   !.data = d]
              /\ Token_children_tokens(Run(arena'), t) = Yields(<<>>)
              /\ arena'.len = arena.len - Cardinality(desc)
              /\ Occupied(arena') = Occupied(arena) \ desc
      ]_vars

Creates == {"new_node", "append", "insert_before", "insert_after"}

(* C20: in a program that creates nodes and removes nodes with             *)
(* Arena::remove and Arena::uproot, creating a node while a slot is free   *)
(* succeeds by reusing a free slot: the call returns (insert_before on a   *)
(* parentless node, which fails by design, aside), capacity() is the same  *)
(* after the call as before it, and the call fills exactly one slot that   *)
(* was free. node_count is the number of occupied slots, so after M        *)
(* removals the next M creations each find a free slot.                    *)
C20_SlotReuse ==
    [][ (/\ last'.op \in Creates
         /\ arena.len < capacity(arena)
         /\ ~(/\ last'.op = "insert_before"
              /\ NodeAt(arena, last'.tok).parent = None)) =>
          /\ arena.len = Cardinality(Occupied(arena))
          /\ capacity(arena') = capacity(arena)
          /\ panic' = ""
          /\ last'.ret \in (1..capacity(arena)) \ Occupied(arena)
          /\ Occupied(arena') = Occupied(arena) \cup {last'.ret}
          /\ arena'.len = arena.len + 1
      ]_vars

----------------------------------------------------------------------------
(* The operations that free no node, given that they return. *)
Keeps == {"new_node", "append", "insert_before", "insert_after", "detach",
          "replace_node"}

(* C21: tokens are stable. Every call leaves every node that is in the     *)
(* arena before and after it at its token, with its token field and its    *)
(* payload (Arena::overwrite changes the payload of its target); a         *)
(* creation, pool growth included, and detach, replace_node and the       *)
(* attach operations free no node, and Arena::remove frees its target      *)
(* only; get resolves the token of a kept node to that node, and get of a  *)
(* freed token is none.                                                    *)
C21_TokenStability ==
    [][ /\ \A t \in Occupied(arena) \cap Occupied(arena') :
              /\ is_valid_token(arena', t)
              /\ get(arena', t).token = get(arena, t).token
              /\ \/ get(arena', t).data = get(arena, t).data
                 \/ last'.op = "overwrite" /\ last'.tok = t
        /\ \A t \in Occupied(arena) \ Occupied(arena') :
              ~is_valid_token(arena', t)
        /\ last'.op \in Keeps \cup NodeOps =>
              Occupied(arena) \subseteq Occupied(arena')
        /\ last'.op = "remove" =>
              Occupied(arena) \ Occupied(arena') \subseteq {last'.tok}
      ]_vars

(* a removal has freed a slot of a grown pool and left two nodes or more *)
C21_Witness ==
    /\ panic = ""
    /\ last.op \in {"remove", "uproot"}
    /\ capacity(arena) >= 4
    /\ ~is_valid_token(arena, last.tok)
    /\ arena.len >= 2

(* C22: a program that calls the public operations with tokens of occupied *)
(* nodes only never aborts on "Invalid token", "Corrupt tree" or "Corrupt  *)
(* arena": the one abort it can meet is insert_before on a parentless      *)
(* node; in particular uproot and detach return on every child that        *)
(* Arena::remove left behind.                                              *)
C22_NoCorruptAbort ==
    /\ panic \in {"", "Cannot insert as the previous sibling of the root node"}
    /\ (last.op = "remove" /\ panic = "") =>
          \A c \in Range(last.toks) :
             /\ Running(Arena_uproot(Run(arena), c))
             /\ Running(Token_detach(Run(arena), c))

(* The tokens that address no occupied node: the free slots and the first  *)
(* token beyond the pool.                                                  *)
Invalid == (1..(capacity(arena) + 1)) \ Occupied(arena)

TraversalOrder == {"Pre", "Post", "Level"}

(* C23: every iterator constructor (ancestors, preceding and following     *)
(* siblings, children, subtree_tokens and subtree in the three orders, and *)
(* the _mut variants) panics in the constructor, before any next(), when   *)
(* its token addresses no occupied node.                                   *)
C23_ConstructorsAbort ==
    \A t \in Invalid :
       /\ Token_ancestors_tokens(arena, t).panic # ""
       /\ Token_preceding_siblings_tokens(arena, t).panic # ""
       /\ Token_following_siblings_tokens(arena, t).panic # ""
       /\ Token_children_tokens_iter(arena, t).panic # ""
       /\ Token_preceding_siblings_mut(arena, t).panic # ""
       /\ Token_following_siblings_mut(arena, t).panic # ""
       /\ Token_children_mut(arena, t).panic # ""
       /\ Token_ancestors_mut(arena, t).panic # ""
       /\ \A order \in TraversalOrder :
             /\ Token_subtree_tokens(arena, t, order).panic # ""
             /\ Token_subtree_mut(arena, t, order).panic # ""

Reverse(seq) == [i \in 1..Len(seq) |-> seq[Len(seq) + 1 - i]]

(* The siblings of t, t included, in sibling order: the child sequence of  *)
(* t's parent, or t alone when t has no parent.                            *)
Siblings(a, t) ==
    IF NodeAt(a, t).parent = None THEN <<t>>
    ELSE ChildChain(a, NodeAt(a, t).parent)

(* seq is the chain of parents above t: it starts at t's parent, each      *)
(* element is followed by its parent, and it ends at a parentless node.    *)
IsAncestorChain(a, t, seq) ==
    /\ (seq = <<>>) <=> (NodeAt(a, t).parent = None)
    /\ seq # <<>> =>
          /\ seq[1] = NodeAt(a, t).parent
          /\ \A i \in 1..(Len(seq) - 1) : seq[i + 1] = NodeAt(a, seq[i]).parent
          /\ NodeAt(a, seq[Len(seq)]).parent = None

(* C24: for every occupied t of a well-formed arena, ancestors_tokens(t)   *)
(* yields t's parent, then the parent of that, up to the root;             *)
(* preceding_siblings_tokens(t) yields the siblings before t nearest       *)
(* first; following_siblings_tokens(t) yields the siblings after t in      *)
(* order; children_tokens(t) yields t's children in sibling order; none    *)
(* panics, yields t or yields a node twice.                                *)
C24_LinkWalks ==
    (panic = "" /\ WellFormed(arena)) =>
       \A t \in Occupied(arena) :
          LET anc == Tokens_collect(arena, Token_ancestors_tokens(arena, t))
              pre == Tokens_collect(arena,
                        Token_preceding_siblings_tokens(arena, t))
              fol == Tokens_collect(arena,
                        Token_following_siblings_tokens(arena, t))
              chi == Tokens_collect(arena,
                        Token_children_tokens_iter(arena, t))
              sib == Siblings(arena, t)
              i   == IndexOf(sib, t)
          IN  /\ anc.panic = "" /\ pre.panic = ""
              /\ fol.panic = "" /\ chi.panic = ""
              /\ IsAncestorChain(arena, t, anc.toks)
              /\ pre.toks = Reverse(SubSeq(sib, 1, i - 1))
              /\ fol.toks = SubSeq(sib, i + 1, Len(sib))
              /\ chi.toks = ChildChain(arena, t)
              /\ Range(chi.toks) =
                    {c \in Occupied(arena) : NodeAt(arena, c).parent = t}
              /\ \A seq \in {anc.toks, pre.toks, fol.toks, chi.toks} :
                    t \notin Range(seq) /\ NoDuplicates(seq)

(* a well-formed arena with a node that has two ancestors and a preceding  *)
(* sibling, whose sibling has a following sibling                          *)
C24_Witness ==
    /\ panic = "" /\ WellFormed(arena)
    /\ \E t \in Occupied(arena) :
          /\ Len(Tokens_collect(arena,
                    Token_ancestors_tokens(arena, t)).toks) = 2
          /\ Len(Tokens_collect(arena,
                    Token_preceding_siblings_tokens(arena, t)).toks) = 1
          /\ \E u \in Occupied(arena) :
                Tokens_collect(arena,
                   Token_following_siblings_tokens(arena, u)).toks = <<t>>

(* C25: run to its end on an occupied token, each mutable iterator yields  *)
(* the nodes of the corresponding token iterator in the same order, each   *)
(* once: ancestors_mut those of ancestors_tokens (from the parent up, t    *)
(* excluded), preceding_siblings_mut, following_siblings_mut and           *)
(* children_mut those of their token iterators, and subtree_mut those of   *)
(* subtree_tokens in each order.                                           *)
C25_MutAsTokens ==
    panic = "" =>
       \A t \in Occupied(arena) :
          /\ Mut_collect(arena, Token_ancestors_mut(arena, t)) =
                Tokens_collect(arena, Token_ancestors_tokens(arena, t))
          /\ Mut_collect(arena, Token_preceding_siblings_mut(arena, t)) =
                Tokens_collect(arena,
                   Token_preceding_siblings_tokens(arena, t))
          /\ Mut_collect(arena, Token_following_siblings_mut(arena, t)) =
                Tokens_collect(arena,
                   Token_following_siblings_tokens(arena, t))
          /\ Mut_collect(arena, Token_children_mut(arena, t)) =
                Tokens_collect(arena, Token_children_tokens_iter(arena, t))
          /\ \A order \in TraversalOrder :
                /\ subtree_mut(arena, t, order) =
                      subtree_tokens(arena, t, order)
                /\ NoDuplicates(subtree_mut(arena, t, order).toks)

(* Arena::node_count *)
node_count(A) == A.len

(* The arena after t.append(d) followed by `removal` of the new child:     *)
(* when both calls return, node_count and every node of `a` are as in `a`. *)
Restores(a, t, d, removal) ==
    LET Removed(A1) ==
            IF removal = "uproot" THEN Arena_uproot(A1, A1.ret)
            ELSE Arena_remove(A1, A1.ret)
        Same(A2) ==
            Running(A2) =>
               /\ node_count(A2) = node_count(a)
               /\ Occupied(A2) = Occupied(a)
               /\ \A n \in Occupied(a) : NodeAt(A2, n) = NodeAt(a, n)
    IN  Same(Removed(Token_append(Run(a), t, d)))

(* C26: node_count() is 1 in an arena fresh from with_data; every          *)
(* new_node, append, insert_before and insert_after that returns raises it *)
(* by exactly 1; and appending a child to any node and then removing that  *)
(* child, by uproot or by remove, leaves node_count and every link of      *)
(* every node as they were before the append.                              *)
C26_NodeCount ==
    /\ [](/\ calls = 0 => node_count(arena) = 1
          /\ panic = "" =>
                \A t \in Occupied(arena), d \in Data :
                   /\ Restores(arena, t, d, "uproot")
                   /\ Restores(arena, t, d, "remove"))
    /\ [][ (last'.op \in Creates /\ panic' = "") =>
              node_count(arena') = node_count(arena) + 1 ]_vars

C28_AllocatorRemove ==
    \A t \in 1..(capacity(arena) + 1) :
       LET R   == Allocator_remove(Run(arena), t)
           out == Allocator_remove_out(Run(arena), t)
       IN  IF t \in Occupied(arena)
           THEN /\ out.some /\ out.value = <<NodeAt(arena, t)>>
                /\ R.len = arena.len - 1
                /\ R.data[t] = Nothing(arena.head)
                /\ R.head = t
                /\ Len(R.data) = Len(arena.data)
                /\ \A i \in 1..Len(arena.data) :
                      i # t => R.data[i] = arena.data[i]
                /\ Running(R)
           ELSE /\ ~out.some
                /\ Fields(R) = arena
                /\ Running(R)

(* Arena::remove has freed a slot while another slot was free: the freed   *)
(* cell links to the old head, and an occupied slot, a free slot and a     *)
(* token beyond the pool are there for the next removal                    *)
C28_Witness ==
    /\ panic = ""
    /\ last.op = "remove"
    /\ arena.head = last.tok
    /\ ~arena.data[last.tok].just
    /\ arena.data[last.tok].next # None
    /\ Occupied(arena) # {}

(* In arena a the next creation reuses slot t: new_node returns t, and so  *)
(* does every append, insert_before and insert_after that returns; get(t)  *)
(* then resolves to the node just created.                                 *)
Reuses(a, t) ==
    \A d \in Data :
       LET IsNew(R, parent) ==
               /\ R.ret = t
               /\ is_valid_token(R, t)
               /\ get(R, t).token = t
               /\ get(R, t).data = d
               /\ get(R, t).parent = parent
               /\ get(R, t).first_child = None
               /\ R.len = a.len + 1
       IN  /\ Running(Arena_new_node(Run(a), d))
           /\ IsNew(Arena_new_node(Run(a), d), None)
           /\ \A u \in Occupied(a) :
                 /\ Running(Token_append(Run(a), u, d)) =>
                       IsNew(Token_append(Run(a), u, d), u)
                 /\ Running(Token_insert_before(Run(a), u, d)) =>
                       IsNew(Token_insert_before(Run(a), u, d),
                             NodeAt(a, u).parent)
                 /\ Running(Token_insert_after(Run(a), u, d)) =>
                       IsNew(Token_insert_after(Run(a), u, d),
                             NodeAt(a, u).parent)

(* C29: slot reuse is last-freed-first and unversioned. Right after        *)
(* Arena::remove(t) or Arena::uproot(t) has returned, and right after      *)
(* remove_descendants has freed the last child of its target as its last   *)
(* slot, the next node creation returns that very token, and get of the    *)
(* stale token resolves to the new node.                                   *)
C29_LastFreedFirst ==
    [][ panic' = "" =>
          /\ last'.op \in {"remove", "uproot"} =>
                /\ ~is_valid_token(arena', last'.tok)
                /\ Reuses(arena', last'.tok)
          /\ (/\ last'.op = "remove_descendants"
              /\ ChildChain(arena, last'.tok) # <<>>) =>
                LET ch == ChildChain(arena, last'.tok) IN
                /\ ~is_valid_token(arena', ch[Len(ch)])
                /\ Reuses(arena', ch[Len(ch)])
      ]_vars

(* uproot has freed a node in a pool of four cells and left two nodes, and *)
(* an append to one of them returns the freed token                        *)
C29_Witness ==
    /\ panic = ""
    /\ last.op = "uproot"
    /\ node_count(arena) = 2
    /\ capacity(arena) = 4
    /\ arena.head = last.tok
    /\ \E u \in Occupied(arena) :
          /\ Running(Token_append(Run(arena), u, 1))
          /\ Token_append(Run(arena), u, 1).ret = last.tok

(* C30: Allocator::set(token, v) overwrites in place. For every token of   *)
(* the pool, after the call get(token) is v, the value returned is the     *)
(* previous occupant (None for a free slot), every other slot is           *)
(* unchanged, and len is one more only if the slot was free.               *)
C30_AllocatorSet ==
    \A t \in 1..capacity(arena), d \in Data :
       LET v   == Node(d, t, None, None, None, None)
           R   == Allocator_set(Run(arena), t, v)
           out == Allocator_remove_out(Run(arena), t)
       IN  /\ Running(R)
           /\ is_valid_token(R, t) /\ get(R, t) = v
           /\ out.some <=> t \in Occupied(arena)
           /\ out.some => out.value = <<NodeAt(arena, t)>>
           /\ Len(R.data) = Len(arena.data)
           /\ \A i \in 1..Len(arena.data) :
                 i # t => R.data[i] = arena.data[i]
           /\ R.len = IF t \in Occupied(arena) THEN arena.len
                                               ELSE arena.len + 1

RECURSIVE IsPowerOfTwo(_)
IsPowerOfTwo(n) ==
    IF n = 1 THEN TRUE
    ELSE IF n < 1 \/ n % 2 = 1 THEN FALSE
    ELSE IsPowerOfTwo(n \div 2)

(* C31: capacity() changes only in a call that creates a node (the         *)
(* placeholder of an attach operation included) while the free list is     *)
(* empty, and then it exactly doubles and the node is created; so the      *)
(* capacity is always a power of two, never decreases, and is at least     *)
(* node_count.                                                             *)
C31_Capacity ==
    /\ [](/\ IsPowerOfTwo(capacity(arena))
          /\ capacity(arena) >= node_count(arena))
    /\ [][ /\ capacity(arena') >= capacity(arena)
           /\ capacity(arena') # capacity(arena) =>
                 /\ last'.op \in Creates \cup NodeOps
                 /\ arena.head = None
                 /\ capacity(arena') = 2 * capacity(arena)
                 /\ node_count(arena') >= node_count(arena)
                 /\ (last'.op \in Creates =>
                        panic' = "" /\ is_valid_token(arena', last'.ret))
           /\ (last'.op \in Creates /\ arena.head = None /\ panic' = "") =>
                 capacity(arena') = 2 * capacity(arena)
         ]_vars

(* The free list of a: the slots met from head by the next links, as far   *)
(* as they lead through free slots not met before.                         *)
RECURSIVE FreeFrom(_, _, _)
FreeFrom(a, h, acc) ==
    IF h = None \/ h \notin 1..Len(a.data) THEN acc
    ELSE IF a.data[h].just \/ (\E i \in 1..Len(acc) : acc[i] = h) THEN acc
    ELSE FreeFrom(a, a.data[h].next, Append(acc, h))

FreeList(a) == FreeFrom(a, a.head, <<>>)

(* C32: on a well-formed tree remove_descendants(t) (also as the first     *)
(* step of overwrite) returns without reading a freed slot, frees the      *)
(* descendants of t in post-order, so that the free list then holds them   *)
(* last-freed-first in front of the slots that were free before, and       *)
(* leaves t itself occupied.                                               *)
C32_RemoveDescendantsOrder ==
    [][ (/\ last'.op \in {"remove_descendants", "overwrite"}
         /\ WellFormed(arena)) =>
          LET t == last'.tok
              post == PostOrder(arena, t, Len(arena.data))
              freed == SubSeq(post, 1, Len(post) - 1)
          IN  /\ panic' = ""
              /\ is_valid_token(arena', t)
              /\ Range(freed) = Subtree(arena, t) \ {t}
              /\ FreeList(arena') = Reverse(freed) \o FreeList(arena)
              /\ Occupied(arena') = Occupied(arena) \ Range(freed)
      ]_vars

(* remove_descendants has freed the three descendants of the root, in an   *)
(* order that is not the order of their tokens, in a pool that was full    *)
C32_Witness ==
    /\ panic = ""
    /\ last.op = "remove_descendants"
    /\ node_count(arena) = 1
    /\ Len(FreeList(arena)) = 3
    /\ FreeList(arena) # <<4, 3, 2>>
    /\ FreeList(arena) # <<2, 3, 4>>

(* r lies on a cycle of the parent relation of A. *)
OnParentCycle(A, r) ==
    /\ is_valid_token(A, r)
    /\ r \in AncestorsOrSelf(A, get(A, r).parent, Len(A.data))

(* The call returned Ok and left r on a cycle of the parent relation, with *)
(* x still below r.                                                        *)
AttachedInCycle(A, x, r) ==
    /\ Running(A) /\ A.err = ""
    /\ OnParentCycle(A, r)
    /\ r \in AncestorsOrSelf(A, x, Len(A.data))

(* C33: the attach operations are unchecked. When r is a free root and a   *)
(* proper ancestor of x, x.append_node(r), x.insert_node_before(r),        *)
(* x.insert_node_after(r) and x.replace_node(r) return Ok and leave a      *)
(* cycle in the parent relation: r has a parent and is its own ancestor.   *)
C33_UncheckedAttach ==
    panic = "" =>
       \A x \in Occupied(arena) :
          \A r \in AncestorsOrSelf(arena, x, Len(arena.data)) \ {x} :
             FreeRoot(arena, r) =>
                /\ AttachedInCycle(Token_append_node(Run(arena), x, r), x, r)
                /\ get(Token_append_node(Run(arena), x, r), r).parent = x
                /\ AttachedInCycle(
                      Token_insert_node_before(Run(arena), x, r), x, r)
                /\ AttachedInCycle(
                      Token_insert_node_after(Run(arena), x, r), x, r)
                /\ LET R == Token_replace_node(Run(arena), x, r) IN
                   /\ Running(R) /\ R.err = ""
                   /\ OnParentCycle(R, r)

(* The occupied slots that the first_child and next_sibling links of the   *)
(* nodes of S name.                                                        *)
LinkedFrom(a, S) ==
    {m \in Occupied(a) :
        \E n \in S : \/ NodeAt(a, n).first_child = m
                     \/ NodeAt(a, n).next_sibling = m}

(* The nodes reached from S by one or more first_child / next_sibling      *)
(* links.                                                                  *)
RECURSIVE ReachedFrom(_, _, _)
ReachedFrom(a, S, fuel) ==
    IF fuel = 0 THEN {}
    ELSE LinkedFrom(a, S) \cup ReachedFrom(a, LinkedFrom(a, S), fuel - 1)

(* The parent links from n end at a parentless node. *)
ReachesRoot(a, n) ==
    \E r \in AncestorsOrSelf(a, n, Len(a.data)) : NodeAt(a, r).parent = None

Acyclic(a) ==
    \A n \in Occupied(a) :
       /\ ReachesRoot(a, n)
       /\ n \notin AncestorsOrSelf(a, NodeAt(a, n).parent, Len(a.data))
       /\ n \notin ReachedFrom(a, {n}, Len(a.data))

(* C34: as long as every replace_node, append_node, insert_node_before and *)
(* insert_node_after is given an `other` whose subtree does not hold       *)
(* `self`, the structure is acyclic after any sequence of calls: the       *)
(* parent links of every occupied node end at a parentless node, and no    *)
(* node is reached from itself through first_child / next_sibling links.   *)
C34_Acyclic == panic = "" => Acyclic(arena)

(* The call aborted and left the allocator (cells, links, payloads, len,   *)
(* free list, capacity) as it was in a.                                    *)
AbortedUnchanged(a, R) == ~Running(R) /\ Fields(R) = a

(* C35: a mutating operation (append, insert_before, insert_after, detach, *)
(* replace_node, Arena::remove, uproot, overwrite) called with a token     *)
(* that addresses no occupied node aborts before it changes anything:      *)
(* every cell, link and payload, node_count, the free list and capacity    *)
(* are as before the call.                                                 *)
C35_AbortBeforeChange ==
    panic = "" =>
       \A t \in Invalid, d \in Data :
          /\ AbortedUnchanged(arena, Token_append(Run(arena), t, d))
          /\ AbortedUnchanged(arena, Token_insert_before(Run(arena), t, d))
          /\ AbortedUnchanged(arena, Token_insert_after(Run(arena), t, d))
          /\ AbortedUnchanged(arena, Token_detach(Run(arena), t))
          /\ AbortedUnchanged(arena, Arena_remove(Run(arena), t))
          /\ AbortedUnchanged(arena, Arena_uproot(Run(arena), t))
          /\ AbortedUnchanged(arena, Arena_overwrite(Run(arena), t, d))
          /\ \A o \in Occupied(arena) \cup Invalid :
                /\ AbortedUnchanged(arena,
                                    Token_replace_node(Run(arena), t, o))
                /\ AbortedUnchanged(arena,
                                    Token_replace_node(Run(arena), o, t))


----------------------------------------------------------------------------
(* iter.rs: one call of next() of the single-link iterators and of         *)
(* SubtreeMut: the iterator after the call, with the item returned (None   *)
(* at the end).                                                            *)

(* a next() that yields the current token without moving along the link *)
Tokens_next_stay(A, it) ==
    IF it.node_token = None THEN [iter |-> it, item |-> None]
    ELSE IF ~is_valid_token(A, it.node_token)
    THEN [iter |-> [it EXCEPT !.panic = "Stale token"], item |-> None]
    ELSE [iter |-> it, item |-> it.node_token]

(* iterator!(@token ...)::next *)
Tokens_next(A, it) ==
    IF it.node_token = None THEN [iter |-> it, item |-> None]
    ELSE IF ~is_valid_token(A, it.node_token)
    THEN [iter |-> [it EXCEPT !.panic = "Stale token"], item |-> None]
    ELSE [iter |-> [it EXCEPT !.node_token = get(A, it.node_token)[it.field]],
          item |-> it.node_token]

(* iterator!(@mut ...)::next *)
Mut_next(A, it) ==
    IF it.node_token = None \/ ~is_valid_token(A, it.node_token)
    THEN [iter |-> it, item |-> None]
    ELSE [iter |-> [it EXCEPT !.node_token = get(A, it.node_token)[it.field]],
          item |-> it.node_token]

(* SubtreeMut::next *)
SubtreeMut_next(A, iter) ==
    LET Got(r) ==
            IF r.item # None /\ ~is_valid_token(A, r.item)
            THEN [iter |-> r.iter, item |-> None]
            ELSE r
    IN  Got(SubtreeTokens_next(A, iter))

(* next() of an iterator of the given kind *)
IteratorNext(kind, A, it) ==
    CASE kind = "tokens" -> Tokens_next(A, it)
      [] kind = "mut" -> Mut_next(A, it)
      [] kind = "subtree" -> SubtreeTokens_next(A, it)
      [] kind = "subtree_mut" -> SubtreeMut_next(A, it)

(* next() called until it returns None: the iterator then, the number of   *)
(* items it yielded, and how the calls ended: with None ("none"), with a   *)
(* panic ("panic"), or not at all ("diverge": a call that does not return, *)
(* or more items than `fuel`).                                             *)
RECURSIVE Drained(_, _, _, _, _)
Drained(kind, A, it, count, fuel) ==
    LET End(i, how) == [iter |-> i, count |-> count, end |-> how]
        Called(r) ==
            IF r.iter.panic = "diverge" THEN End(r.iter, "diverge")
            ELSE IF r.iter.panic # "" THEN End(r.iter, "panic")
            ELSE IF r.item = None THEN End(r.iter, "none")
            ELSE IF fuel = 0 THEN End(it, "diverge")
            ELSE Drained(kind, A, r.iter, count + 1, fuel - 1)
    IN  IF it.panic = "diverge" THEN End(it, "diverge")
        ELSE IF it.panic # "" THEN End(it, "panic")
        ELSE Called(IteratorNext(kind, A, it))

(* The iterator returns None after at most node_count items, and the call  *)
(* after that returns None and leaves the iterator as it is, so that every *)
(* later call does the same.                                               *)
Exhausts(kind, A, it) ==
    LET Again(d, r) == r.item = None /\ r.iter = d.iter
        Ended(d) ==
            /\ d.end = "none"
            /\ d.count <= node_count(A)
            /\ Again(d, IteratorNext(kind, A, d.iter))
    IN  Ended(Drained(kind, A, it, 0, 2 * capacity(A) + 2))

(* The calls of next() come to an end: with None or with a panic. *)
Halts(kind, A, it) ==
    LET Ended(d) == d.end # "diverge" /\ d.count <= node_count(A)
    IN  Ended(Drained(kind, A, it, 0, 2 * capacity(A) + 2))

(* C36: on an acyclic, well-formed arena every iterator made from a token  *)
(* of the arena returns None after at most node_count items and returns    *)
(* None on every later call; an iterator made from a token that is not in  *)
(* the arena ends as well, with None or with a panic; remove_descendants   *)
(* and uproot return, and copy_and_append_subtree from a well-formed arena *)
(* comes to an end (it returns or it panics).                              *)
C36_Termination ==
    (panic = "" /\ WellFormed(arena) /\ Acyclic(arena)) =>
       /\ \A t \in Occupied(arena) :
             /\ Exhausts("tokens", arena, Token_ancestors_tokens(arena, t))
             /\ Exhausts("tokens", arena,
                         Token_preceding_siblings_tokens(arena, t))
             /\ Exhausts("tokens", arena,
                         Token_following_siblings_tokens(arena, t))
             /\ Exhausts("tokens", arena, Token_children_tokens_iter(arena, t))
             /\ Exhausts("mut", arena, Token_ancestors_mut(arena, t))
             /\ Exhausts("mut", arena, Token_preceding_siblings_mut(arena, t))
             /\ Exhausts("mut", arena, Token_following_siblings_mut(arena, t))
             /\ Exhausts("mut", arena, Token_children_mut(arena, t))
             /\ \A order \in TraversalOrder :
                   /\ Exhausts("subtree", arena,
                               Token_subtree_tokens(arena, t, order))
                   /\ Exhausts("subtree_mut", arena,
                               Token_subtree_mut(arena, t, order))
             /\ Token_remove_descendants(Run(arena), t).panic = ""
             /\ Arena_uproot(Run(arena), t).panic = ""
             /\ \A o \in Occupied(arena) :
                   Arena_copy_and_append_subtree(Run(arena), t, arena,
                                                 o).panic # "diverge"
             /\ \A o \in Occupied(TwoChildren) :
                   Arena_copy_and_append_subtree(Run(arena), t, TwoChildren,
                                                 o).panic # "diverge"
       /\ \A t \in Invalid :
             /\ Halts("tokens", arena, Token_ancestors_tokens(arena, t))
             /\ Halts("tokens", arena, Token_children_tokens_iter(arena, t))
             /\ Halts("mut", arena, Token_ancestors_mut(arena, t))
             /\ Halts("mut", arena, Token_children_mut(arena, t))
             /\ \A order \in TraversalOrder :
                   /\ Halts("subtree", arena,
                            Token_subtree_tokens(arena, t, order))
                   /\ Halts("subtree_mut", arena,
                            Token_subtree_mut(arena, t, order))

(* A well-formed arena of four nodes in which the root has a grandchild:   *)
(* the pre-order iterator of the root yields the four tokens and then      *)
(* None, and the ancestors iterator of the grandchild yields two tokens    *)
(* and then None.                                                          *)
C36_Witness ==
    /\ panic = "" /\ WellFormed(arena) /\ Acyclic(arena)
    /\ node_count(arena) = MaxNodes
    /\ \E r, g \in Occupied(arena) :
          /\ NodeAt(arena, r).parent = None
          /\ NodeAt(arena, g).parent # None
          /\ NodeAt(arena, g).parent # r
          /\ Drained("subtree", arena, Token_subtree_tokens(arena, r, "Pre"),
                     0, 2 * capacity(arena) + 2)
                = [iter |-> [Token_subtree_tokens(arena, r, "Pre")
                                EXCEPT !.node_token = None, !.branch = "None"],
                   count |-> MaxNodes, end |-> "none"]
          /\ Drained("tokens", arena, Token_ancestors_tokens(arena, g), 0,
                     2 * capacity(arena) + 2).count = 2
          /\ Exhausts("tokens", arena, Token_ancestors_tokens(arena, g))


----------------------------------------------------------------------------
(* alloc.rs: the allocator on its own, driven through insert, remove, set, *)
(* head and reserve with any token of the pool or the one beyond it.       *)

(* Allocator::new *)
Allocator_new == [data |-> <<Nothing(None)>>, head |-> 1, len |-> 0]

(* The value stored by the calls of insert and set: the allocator does not *)
(* look into it.                                                           *)
Value(d) == Node(d, None, None, None, None, None)

(* The tokens handed to remove and set: every slot of the pool and the     *)
(* first one beyond it.                                                    *)
PoolTokens == 1..(capacity(arena) + 1)

(* The numbers of cells asked of reserve *)
Additional == 1..2

(* The pool is kept to at most 2 * MaxNodes cells. *)
FitsPool(A) == capacity(A) <= 2 * MaxNodes

InitAlloc ==
    /\ arena = Allocator_new
    /\ panic = ""
    /\ last = [op |-> "new", tok |-> None, other |-> None, ret |-> None,
               toks |-> <<>>, err |-> "", tree |-> NoArena]
    /\ calls = 0

DoAllocInsert ==
    /\ Live
    /\ \E d \in Data :
          LET A == Allocator_insert(Run(arena), Value(d)) IN
          FitsPool(A) /\ Commit("insert", None, None, A)

DoAllocRemove ==
    /\ Live
    /\ \E t \in PoolTokens :
          Commit("remove", t, None, Allocator_remove(Run(arena), t))

DoAllocSet ==
    /\ Live
    /\ \E t \in PoolTokens, d \in Data :
          LET A == Allocator_set(Run(arena), t, Value(d)) IN
          FitsPool(A) /\ Commit("set", t, None, A)

DoAllocHead ==
    /\ Live
    /\ LET A == Allocator_head(Run(arena)) IN
       FitsPool(A) /\ Commit("head", None, None, A)

DoAllocReserve ==
    /\ Live
    /\ \E k \in Additional :
          LET A == Allocator_reserve(Run(arena), k) IN
          FitsPool(A) /\ Commit("reserve", k, None, A)

NextAlloc ==
    \/ DoAllocInsert
    \/ DoAllocRemove
    \/ DoAllocSet
    \/ DoAllocHead
    \/ DoAllocReserve

SpecAlloc == InitAlloc /\ [][NextAlloc]_vars

(* The walk along the free list ends at none: the last slot it meets has   *)
(* no successor (FreeList stops early at an occupied or out-of-range slot  *)
(* and at a slot met before).                                              *)
FreeListEnds(a) ==
    LET fl == FreeList(a) IN
    IF fl = <<>> THEN a.head = None
    ELSE a.data[fl[Len(fl)]].next = None

(* C37: in every state of the allocator reached through insert, remove,    *)
(* set, head and reserve(k >= 1), len is the number of occupied slots and  *)
(* at most the capacity, the free list from head meets every free slot     *)
(* once and ends at none, and no call has aborted.                         *)
C37_AllocatorInvariant ==
    /\ panic = ""
    /\ arena.len = Cardinality(Occupied(arena))
    /\ arena.len <= capacity(arena)
    /\ NoDuplicates(FreeList(arena))
    /\ Range(FreeList(arena)) = (1..capacity(arena)) \ Occupied(arena)
    /\ FreeListEnds(arena)
    /\ find_last_available(arena) # -1

(* reserve has been called on a pool with free slots that earlier calls of *)
(* remove had put out of ascending order, next to occupied slots.          *)
C37_Witness ==
    /\ last.op = "reserve"
    /\ arena.len >= 1
    /\ Len(FreeList(arena)) >= 3
    /\ \E i \in 1..(Len(FreeList(arena)) - 1) :
          FreeList(arena)[i] > FreeList(arena)[i + 1]
    /\ C37_AllocatorInvariant


(* The links of the occupied node n that refer to a slot holding no node *)
Dangling(a, n) ==
    {f \in {"parent", "previous_sibling", "next_sibling", "first_child"} :
        NodeAt(a, n)[f] # None /\ NodeAt(a, n)[f] \notin Occupied(a)}

(* C38: in every state reached through the public operations with valid   *)
(* tokens and disjoint attaches, no link of an occupied node refers to a   *)
(* free or out-of-range slot.                                              *)
C38_NoDanglingLink ==
    panic = "" => \A n \in Occupied(arena) : Dangling(arena, n) = {}


----------------------------------------------------------------------------
(* lib.rs: the map-backed Tree.  A Token(n) is the number n, counted from  *)
(* 0; an Option<Token> is the empty sequence or the sequence of one token; *)
(* the HashMap is a function from the tokens it holds to their nodes.  An  *)
(* operation takes and returns the tree with the outcome of the call.      *)

NoToken == <<>>
SomeToken(t) == <<t>>

TreeRun(T) ==
    [next_token |-> T.next_token, arena |-> T.arena, panic |-> "",
     ret |-> NoToken]

TreeFields(R) == [next_token |-> R.next_token, arena |-> R.arena]

TreePanic(R, msg) == [R EXCEPT !.panic = msg]

(* HashMap::insert and HashMap::remove *)
HashMap_insert(m, k, v) ==
    [i \in DOMAIN m \cup {k} |-> IF i = k THEN v ELSE m[i]]

HashMap_remove(m, k) == [i \in DOMAIN m \ {k} |-> m[i]]

(* Tree::get *)
Tree_get(T, indx) ==
    IF indx \in DOMAIN T.arena THEN <<T.arena[indx]>> ELSE <<>>

(* Tree::with_root *)
Tree_with_root(data) ==
    [next_token |-> 1,
     arena |-> [i \in {0} |->
                   Node(data, 0, NoToken, NoToken, NoToken, NoToken)]]

(* iterator!(@id ...): collect() of a token iterator that starts at        *)
(* node_token and follows `field`; the unwrap fails on a token that is not *)
(* in the map.                                                             *)
RECURSIVE Lib_iterator_id(_, _, _, _, _)
Lib_iterator_id(T, node_token, field, acc, fuel) ==
    IF node_token = NoToken THEN [toks |-> acc, panic |-> ""]
    ELSE IF node_token[1] \notin DOMAIN T.arena
    THEN [toks |-> acc, panic |-> "called Option::unwrap() on a None value"]
    ELSE IF fuel = 0 THEN [toks |-> acc, panic |-> "diverge"]
    ELSE Lib_iterator_id(T, T.arena[node_token[1]][field], field,
                         Append(acc, node_token[1]), fuel - 1)

(* iterator!(@mut ...): the same walk, which ends silently on a token that *)
(* is not in the map.                                                      *)
RECURSIVE Lib_iterator_mut(_, _, _, _, _)
Lib_iterator_mut(T, node_token, field, acc, fuel) ==
    IF node_token = NoToken THEN [toks |-> acc, panic |-> ""]
    ELSE IF node_token[1] \notin DOMAIN T.arena
    THEN [toks |-> acc, panic |-> ""]
    ELSE IF fuel = 0 THEN [toks |-> acc, panic |-> "diverge"]
    ELSE Lib_iterator_mut(T, T.arena[node_token[1]][field], field,
                          Append(acc, node_token[1]), fuel - 1)

(* The first_child of self, None for a token that is not in the map *)
Lib_first_child(T, self) ==
    IF self \in DOMAIN T.arena THEN T.arena[self].first_child ELSE NoToken

(* Token::children_tokens(arena).collect(), with                           *)
(* iterator!(@id struct ChildrenTokens > first_child)                      *)
Lib_children_tokens(T, self) ==
    Lib_iterator_id(T, Lib_first_child(T, self), "first_child", <<>>,
                    T.next_token + 1)

(* Token::children_mut(arena) run to its end, with                         *)
(* iterator!(@mut struct ChildrenMut > first_child)                        *)
Lib_children_mut(T, self) ==
    Lib_iterator_mut(T, Lib_first_child(T, self), "first_child", <<>>,
                     T.next_token + 1)

(* Token::descendents_tokens: aux(token, arena, acc), and its for loop     *)
(* over the children that children_tokens yields                           *)
RECURSIVE Lib_descendents_aux(_, _, _, _)
RECURSIVE Lib_descendents_for(_, _, _, _, _)
Lib_descendents_aux(T, token, acc, fuel) ==
    IF fuel = 0 THEN [toks |-> acc, panic |-> "diverge"]
    ELSE Lib_descendents_for(T, Lib_children_tokens(T, token), 1, acc, fuel)

Lib_descendents_for(T, children, i, acc, fuel) ==
    LET Done(r) ==
            IF r.panic # "" THEN r
            ELSE Lib_descendents_for(T, children, i + 1, r.toks, fuel)
    IN  IF i > Len(children.toks)
        THEN [toks |-> acc, panic |-> children.panic]
        ELSE Done(Lib_descendents_aux(T, children.toks[i],
                                      Append(acc, children.toks[i]),
                                      fuel - 1))

Lib_descendents_tokens(T, self) ==
    Lib_descendents_aux(T, self, <<>>, T.next_token + 1)

(* Token::remove_descendents *)
Lib_remove_descendents(R, self) ==
    LET Removed(d) ==
            IF d.panic # "" THEN TreePanic(R, d.panic)
            ELSE [R EXCEPT !.arena =
                     [i \in DOMAIN R.arena \ Range(d.toks) |-> R.arena[i]]]
    IN  IF R.panic # "" THEN R
        ELSE Removed(Lib_descendents_tokens(R, self))

(* Node::remove_descendents *)
Lib_Node_remove_descendents(R, node) ==
    Lib_remove_descendents(R, node.token)

(* Tree::set *)
Tree_set(R, indx, node) ==
    LET Inserted(R1) ==
            IF indx \in DOMAIN R.arena
            THEN Lib_Node_remove_descendents(R1, R.arena[indx])
            ELSE R1
    IN  IF R.panic # "" THEN R
        ELSE Inserted([R EXCEPT !.arena = HashMap_insert(@, indx, node)])

(* Tree::remove *)
Tree_remove(R, indx) ==
    IF R.panic # "" THEN R
    ELSE IF indx \in DOMAIN R.arena
    THEN Lib_Node_remove_descendents(
            [R EXCEPT !.arena = HashMap_remove(@, indx)], R.arena[indx])
    ELSE R

(* Token::append of lib.rs *)
Lib_Token_append(R, self, data) ==
    LET new_node_token == R.next_token
        Made(R2, previous_sibling) ==
            [Tree_set(R2, new_node_token,
                      Node(data, new_node_token, SomeToken(self),
                           previous_sibling, NoToken, NoToken))
                EXCEPT !.ret = SomeToken(new_node_token)]
        Linked(R1, children) ==
            IF children.panic # "" THEN TreePanic(R1, children.panic)
            ELSE IF children.toks # <<>>
            THEN Made([R1 EXCEPT
                          !.arena[children.toks[Len(children.toks)]]
                              .next_sibling = SomeToken(new_node_token)],
                      SomeToken(new_node_token))
            ELSE IF self \notin DOMAIN R1.arena
            THEN TreePanic(R1, "called Option::unwrap() on a None value")
            ELSE Made([R1 EXCEPT !.arena[self].first_child =
                                     SomeToken(new_node_token)],
                      NoToken)
        Counted(R1) == Linked(R1, Lib_children_mut(R1, self))
    IN  IF R.panic # "" THEN R
        ELSE Counted([R EXCEPT !.next_token = @ + 1])

(* The program: one Tree made by with_root, driven through append and      *)
(* remove with tokens of nodes that the map holds.                         *)

TreeCommit(op, tok, R) ==
    /\ arena' = TreeFields(R)
    /\ panic' = R.panic
    /\ last' = [op |-> op, tok |-> tok, other |-> None, ret |-> R.ret,
                toks |-> <<>>, err |-> "", tree |-> NoArena]
    /\ calls' = calls + 1

InitTree ==
    /\ arena = Tree_with_root(1)
    /\ panic = ""
    /\ last = [op |-> "with_root", tok |-> None, other |-> None,
               ret |-> NoToken, toks |-> <<>>, err |-> "", tree |-> NoArena]
    /\ calls = 0

DoTreeAppend ==
    /\ Live
    /\ \E t \in DOMAIN arena.arena, d \in Data :
          LET R == Lib_Token_append(TreeRun(arena), t, d) IN
          /\ Cardinality(DOMAIN R.arena) <= MaxNodes
          /\ TreeCommit("Token::append", t, R)

DoTreeRemove ==
    /\ Live
    /\ \E t \in DOMAIN arena.arena :
          TreeCommit("Tree::remove", t, Tree_remove(TreeRun(arena), t))

NextTree ==
    \/ DoTreeAppend
    \/ DoTreeRemove

SpecTree == InitTree /\ [][NextTree]_vars

(* x lies under t: the parent links lead from x to t through nodes that    *)
(* the map holds.                                                          *)
RECURSIVE TreeUnder(_, _, _, _)
TreeUnder(T, x, t, fuel) ==
    IF fuel = 0 \/ x \notin DOMAIN T.arena THEN FALSE
    ELSE IF T.arena[x].parent = NoToken THEN FALSE
    ELSE \/ T.arena[x].parent[1] = t
         \/ TreeUnder(T, T.arena[x].parent[1], t, fuel - 1)

TreeDescendants(T, t) ==
    {x \in DOMAIN T.arena : TreeUnder(T, x, t, T.next_token)}

(* The elements of a set of numbers in ascending order *)
RECURSIVE Ascending(_)
Ascending(S) ==
    IF S = {} THEN <<>>
    ELSE LET m == CHOOSE x \in S : \A y \in S : x <= y
         IN  <<m>> \o Ascending(S \ {m})

(* The direct children of p in the order of their creation (tokens are     *)
(* handed out in ascending order).                                         *)
DirectChildren(T, p) ==
    Ascending({x \in DOMAIN T.arena : T.arena[x].parent = SomeToken(p)})

(* C39: Tree::remove(t) of lib.rs removes t and every descendant of t from *)
(* the map: after the call get returns none for each of them.              *)
C39_TreeRemove ==
    [][ last'.op = "Tree::remove" =>
           \A x \in {last'.tok} \cup TreeDescendants(arena, last'.tok) :
              Tree_get(arena', x) = <<>>
      ]_vars

(* C40: Token::append(parent, d) of lib.rs makes the new node the last     *)
(* direct child of parent: the former last child's next_sibling is the new *)
(* token, the new node's previous_sibling is the former last child (none   *)
(* if there was no child), and children_tokens(parent) yields the direct   *)
(* children in the order of their creation.                                *)
C40_TreeAppend ==
    [][ last'.op = "Token::append" =>
           LET p == last'.tok
               kids == DirectChildren(arena, p)
               new == arena.next_token
           IN  /\ panic' = ""
               /\ last'.ret = SomeToken(new)
               /\ Tree_get(arena', new) # <<>>
               /\ arena'.arena[new].parent = SomeToken(p)
               /\ arena'.arena[new].next_sibling = NoToken
               /\ IF kids = <<>>
                  THEN arena'.arena[new].previous_sibling = NoToken
                  ELSE /\ arena'.arena[kids[Len(kids)]].next_sibling
                             = SomeToken(new)
                       /\ arena'.arena[new].previous_sibling
                             = SomeToken(kids[Len(kids)])
               /\ Lib_children_tokens(arena', p)
                     = [toks |-> Append(kids, new), panic |-> ""]
      ]_vars

====
